---- MODULE Spec2Model ----
(***************************************************************************)
(* Model of the secret-manager scheduler (pkg/internal/scheduler) and of   *)
(* the ExternalSecret reconciler (pkg/controller/externalsecret).          *)
(*                                                                         *)
(* Time is counted in seconds.  New builds the cron of the Scheduler and   *)
(* no file under src starts it; that it runs is the contract of the        *)
(* Scheduler (Started).  The run loop is the one of robfig/cron: its timer *)
(* fires as soon as an entry is due, it calls Schedule.Next for the next   *)
(* activation and Job.Run on a goroutine of its own.                       *)
(*                                                                         *)
(* Six specifications:                                                     *)
(*   SchedSpec  the Scheduler under concurrent callers of Add and Remove;  *)
(*   Spec       Reconcile, run by the single worker SetupWithManager       *)
(*              configures, driving the Scheduler; the cycles of the jobs  *)
(*              and of Reconcile, call by call, on the ExternalSecrets     *)
(*              they share;                                                *)
(*   CycleSpec  one cycle (externalSecretSyncer.sync) step by step, with   *)
(*              the payload getSecret builds and the target Secret;        *)
(*   RaceSpec   two cycles of one request, a scheduled one and the one of  *)
(*              a Reconcile, racing on the target Secret and on the        *)
(*              ExternalSecret they share;                                 *)
(*   StoreSpec  the store factory (Default.New) with the AWS constructors  *)
(*              and the session provider;                                   *)
(*   AwsSpec    GetSecret and GetSecretMap of the two AWS stores.           *)
(***************************************************************************)
EXTENDS Integers, FiniteSets, Sequences, TLC

(* ---------------------------------------------------------------------- *)
(* Bounds                                                                  *)
(* ---------------------------------------------------------------------- *)
StartTime == 30
(* the last instant *)
MaxTime == 90
(* cron entries ever created *)
MaxEntries == 2
(* edits of the external actor, and triggers of Reconcile *)
MaxEdits == 2
MaxRuns == 3
(* in Spec, the job bodies in flight at once *)
MaxJobs == 1

Names == {"ns/a", "ns/b"}
Callers == {1, 2}
Delays == {60}

(* a nil *metav1.Duration / *metav1.Time *)
Nil == -1
(* time.Unix(0, 0) *)
Epoch == 0
(* zero value of cron.EntryID, what a missing map key yields *)
NoEntry == 0
(* the single Reconcile worker *)
Worker == 1
(* requeueAfter, in seconds *)
requeueAfter == 30

(* refreshInterval of a request: unset, zero, sub-minute, a minute *)
Intervals == {Nil, 0, 30, 60}
(* the requests the external actor writes in Spec: one identity with      *)
(* every kind of interval; the other identity never exists there          *)
SpecNames == {"ns/a"}

VARIABLES
    now,          \* the clock, in seconds
    obj,          \* the stored ExternalSecrets, by identity
    secret,       \* whether the target Secret of an identity exists
    entries,      \* cron's entries
    nextID,       \* cron's last EntryID
    scheduleMap,  \* Scheduler.scheduleMap
    mu,           \* the holders of Scheduler.mu
    pc,           \* where each caller of the Scheduler stands
    req,          \* the identity each caller works on
    es,           \* what each caller knows of the request it works on
    held,         \* the status of the ExternalSecrets held in memory
    jobs,         \* the scheduled job bodies in flight
    removed,      \* identities whose Remove returned, with no Add since
    last,         \* what the last step returned, if it was a return
    edits,        \* how many edits the external actor has made
    runs,         \* how many times Reconcile was triggered
    phase,        \* CycleSpec: the step the cycle is at
    extSecret,    \* CycleSpec: the request the cycle holds (ess.extSecret)
    secretData,   \* CycleSpec: secret.Data of the Secret sync builds
    secretDataMap, \* CycleSpec: secretDataMap of getSecret
    secretMeta,   \* CycleSpec: secret.ObjectMeta, .Type and .StringData
    target,       \* CycleSpec: the target Secret as stored
    err,          \* CycleSpec: the error the cycle carries, outermost first
    hist,         \* CycleSpec: what the cycle fetched and did so far
    cycles,       \* RaceSpec: the two cycles of one request, step by step
    store,        \* StoreSpec: the SecretStore handed to the factory
    env,          \* StoreSpec: the AWS credentials and region of the process
    client,       \* StoreSpec, AwsSpec: what the factory returned
    reply         \* AwsSpec: the last read of the client and what it gave

cycleVars == <<phase, extSecret, secretData, secretDataMap, secretMeta,
               target, err, hist, cycles>>

storeVars == <<store, env, client, reply>>

vars == <<now, obj, secret, entries, nextID, scheduleMap, mu, pc, req, es,
          held, jobs, removed, last, edits, runs, cycleVars, storeVars>>

(* ---------------------------------------------------------------------- *)
(* scheduler/job.go                                                        *)
(* ---------------------------------------------------------------------- *)

(* Schedule.Next without the Immediate case *)
ScheduleNextNoImmediate(s, t) ==
    [time |-> t + s.RenewAfter, sched |-> s]

(* Schedule.Next: the first call returns t and clears Immediate *)
ScheduleNext(s, t) ==
    IF s.Immediate
    THEN [time |-> t, sched |-> [s EXCEPT !.Immediate = FALSE]]
    ELSE [time |-> t + s.RenewAfter, sched |-> s]

(* a dispatch loop that runs the job bodies itself *)
DispatchFreeSync(js) == js = {}

(* Job.Run is called on a goroutine of its own for every firing, so the   *)
(* dispatch loop is free whatever jobs are in flight                      *)
DispatchFree(js) == TRUE

(* ---------------------------------------------------------------------- *)
(* scheduler.go                                                            *)
(* ---------------------------------------------------------------------- *)

(* taking the lock without waiting for its holder *)
LockFreeAlways(m) == TRUE

(* s.mu.Lock() succeeds only when nobody holds the mutex *)
LockFree(m) == m = {}

(* an Add whose Schedule is not Immediate *)
NewEntryNotImmediate(id, interval, nid, t) ==
    LET n == ScheduleNext([Immediate |-> FALSE, RenewAfter |-> interval], t)
    IN  [id |-> nid, name |-> id, sched |-> n.sched, next |-> n.time,
         added |-> t, fires |-> {}]

(* the body of Scheduler.Add: cron.Schedule appends a new entry under a   *)
(* fresh EntryID; the run loop computes its first Next at once.           *)
(* added and fires are history: when the entry was added, when it fired   *)
NewEntry(id, interval, nid, t) ==
    LET n == ScheduleNext([Immediate |-> TRUE, RenewAfter |-> interval], t)
    IN  [id |-> nid, name |-> id, sched |-> n.sched, next |-> n.time,
         added |-> t, fires |-> {}]

(* a job that returns an error is unregistered *)
EntriesAfterJobDropFailed(ents, j, ok) ==
    IF ok THEN ents ELSE {e \in ents : e.id # j.entry}

(* the closure of lines 64-70: the error of fn is logged, the entry stays *)
EntriesAfterJob(ents, j, ok) == ents

(* Remove that takes the zero EntryID of a missing key for the first entry *)
RemoveEntryZeroBased(ents, sm, id) ==
    {e \in ents : e.id # (IF sm[id] # NoEntry THEN sm[id] ELSE 1)}

(* the body of Scheduler.Remove: cron.Remove(entry) when the key is known *)
RemoveEntry(ents, sm, id) ==
    IF sm[id] # NoEntry THEN {e \in ents : e.id # sm[id]} ELSE ents

(* ---------------------------------------------------------------------- *)
(* controller.go                                                           *)
(* ---------------------------------------------------------------------- *)

(* any set interval is scheduled *)
shouldScheduleAnyInterval(e) == e.interval # Nil /\ e.interval >= 0

shouldSchedule(e) == e.interval # Nil /\ e.interval >= 60

(* the skip without the test for a zero interval *)
skipSyncAnyInterval(e) == e.interval # Nil /\ e.nextSync # Nil

skipSync(e) == e.interval # Nil /\ e.interval = 0 /\ e.nextSync # Nil

(* the zero case computed like the positive one *)
NextSyncNoEpoch(e, t) ==
    IF e.interval # Nil THEN t + e.interval ELSE e.nextSync

(* sync, lines 128-138: Status.NextSync as set at the start of a cycle *)
NextSync(e, t) ==
    IF e.interval # Nil
    THEN (IF e.interval = 0 THEN Epoch ELSE t + e.interval)
    ELSE e.nextSync

NoObject == [exists |-> FALSE, interval |-> Nil, nextSync |-> Nil,
             cond |-> "None"]
(* what a caller knows of its request: the interval and the nextSync its  *)
(* Get read; whether it made an Add and the entry that Add made, whose    *)
(* closure holds the same ExternalSecret; at: when its sync read the      *)
(* clock; ok: what CreateOrUpdate gave                                    *)
(* an ExternalSecret in memory: whose it is, Status.NextSync, the Ready   *)
(* condition, and whether its resourceVersion is the stored one           *)
NoHeld == [name |-> "", nextSync |-> Nil, cond |-> "None", fresh |-> FALSE]
(* sent: the ExternalSecret as Status().Update marshalled it, then the    *)
(* reply to it; st: the call stored it                                    *)
NoES == [interval |-> Nil, seen |-> Nil, added |-> FALSE, entry |-> NoEntry,
         at |-> Nil, ok |-> TRUE, sent |-> NoHeld, st |-> FALSE]
NoRun == [kind |-> "none", name |-> "", found |-> FALSE, interval |-> Nil,
          seen |-> Nil, nextSync |-> Nil, cond |-> "None", syncs |-> 0,
          requeue |-> FALSE, added |-> FALSE, known |-> FALSE,
          same |-> TRUE, entry |-> NoEntry, fired |-> Nil, at |-> Nil,
          ok |-> TRUE, live |-> FALSE, stored |-> FALSE, after |-> 0,
          err |-> FALSE]

(* a failed cycle handed back to the trigger source as an error *)
ReconcileResultAsError(ok) ==
    [requeue |-> FALSE, after |-> 0, err |-> ~ok]

(* Reconcile, lines 110-115: what it returns after es.sync() *)
ReconcileResult(ok) ==
    [requeue |-> ~ok, after |-> IF ok THEN 0 ELSE requeueAfter, err |-> FALSE]

(* no entries: what make(map[string][]byte) gives *)
EmptyMap == [k \in {} |-> <<>>]

(* what a Secret holds besides Data, all of it unset: of ObjectMeta the   *)
(* name (namespace and name), the labels, the annotations and the         *)
(* ownerReferences, whether the CreationTimestamp is set (it is the zero  *)
(* time until the API server has stored the Secret), then Type and        *)
(* StringData.  An owner reference is the owner's name and its Controller *)
(* flag; the type "" is the default type (Opaque), which the API server   *)
(* gives a Secret created without one                                     *)
NoMeta == [name |-> "", labels |-> EmptyMap, annotations |-> EmptyMap,
           owners |-> {}, created |-> FALSE, type |-> "",
           stringData |-> EmptyMap]
(* the in-memory request of a cycle: Status.NextSync, the Ready           *)
(* condition and its message, and Spec.Template once the cycle reads it   *)
NoStatus == [nextSync |-> Nil, cond |-> "None", msg |-> <<>>,
             template |-> [kind |-> "none", data |-> EmptyMap,
                           meta |-> NoMeta]]

(* no target Secret *)
NoTarget == [exists |-> FALSE, data |-> EmptyMap, meta |-> NoMeta]

(* before: the target when the cycle started; from, data: the maps and    *)
(* no SecretStore, an environment without AWS settings, no client yet, no *)
(* read yet                                                               *)
NoClient == [kind |-> "unset", err |-> <<>>, sess |-> <<>>, sts |-> <<>>,
             built |-> <<>>, provider |-> <<>>]
NoReply == [op |-> "none", ref |-> <<>>, reads |-> <<>>, resp |-> <<>>,
            status |-> "", value |-> <<>>, map |-> <<>>, msg |-> ""]
StoreIdle ==
    /\ store = [name |-> "", spec |-> <<>>]
    /\ env = [creds |-> <<>>, region |-> ""]
    /\ client = NoClient
    /\ reply = NoReply

(* the values fetched so far by a getSecret that has not returned;        *)
(* merged: the bytes getSecret had merged when it encoded them; steps:    *)
(* the steps taken, each with whether it succeeded; updates: the calls of  *)
(* Status().Update, each with whether it succeeded                        *)
NoHist == [before |-> NoTarget, from |-> <<>>, data |-> <<>>,
           merged |-> EmptyMap, steps |-> <<>>, updates |-> <<>>]

(* the Scheduler as New returns it, no request stored, no cycle begun *)
BaseInit ==
    /\ now = StartTime
    /\ obj = [n \in Names |-> NoObject]
    /\ secret = [n \in Names |-> FALSE]
    /\ entries = {}
    /\ nextID = 0
    /\ scheduleMap = [n \in Names |-> NoEntry]
    /\ mu = {}
    /\ pc = [w \in Callers |-> "idle"]
    /\ req = [w \in Callers |-> "ns/a"]
    /\ es = [w \in Callers |-> NoES]
    /\ held = [k \in 0..MaxEntries |-> NoHeld]
    /\ jobs = {}
    /\ removed = [n \in Names |-> FALSE]
    /\ last = NoRun
    /\ edits = 0
    /\ runs = 0
    /\ phase = "idle"
    /\ extSecret = NoStatus
    /\ secretData = EmptyMap
    /\ secretDataMap = EmptyMap
    /\ secretMeta = NoMeta
    /\ target = NoTarget
    /\ err = <<>>
    /\ hist = NoHist
    /\ cycles = <<>>

Init == BaseInit /\ StoreIdle

(* ---------------------------------------------------------------------- *)
(* The clock and the cron run loop                                         *)
(* ---------------------------------------------------------------------- *)

(* the cron is running: Scheduler.New leaves it as cron.New() made it,    *)
(* and what starts it is not among the files under src                    *)
Started == TRUE

TimerDue == Started /\ \E e \in entries : e.next <= now

(* time passes up to max; a free dispatch loop lets no due time go by *)
Tick(d, max) ==
    /\ now + d <= max
    /\ (Started /\ DispatchFree(jobs)) =>
           \A e \in entries : e.next >= now + d
    /\ now' = now + d
    /\ last' = NoRun
    /\ UNCHANGED <<cycleVars, storeVars>>
    /\ UNCHANGED <<obj, secret, entries, nextID, scheduleMap, mu, pc, req, es,
                   held, jobs, removed, edits, runs>>

(* a firing that reads the request anew *)
StartJobRereading(e) ==
    [entry |-> e.id, name |-> e.name, interval |-> obj[e.name].interval,
     fired |-> now, at |-> Nil, phase |-> "fired", ok |-> TRUE,
     sent |-> NoHeld, st |-> FALSE, afterRemove |-> removed[e.name]]

(* the run loop calls Job.Run on a goroutine of its own: the closure of   *)
(* Scheduler.Add, with the request captured by Add, has been started and  *)
(* has not yet reached fn.  fired: the instant of the firing; at: the     *)
(* instant sync read the clock; ok: what CreateOrUpdate gave; sent, st:   *)
(* as in NoES                                                             *)
StartJob(e) ==
    [entry |-> e.id, name |-> e.name, interval |-> e.sched.RenewAfter,
     fired |-> now, at |-> Nil, phase |-> "fired", ok |-> TRUE,
     sent |-> NoHeld, st |-> FALSE, afterRemove |-> removed[e.name]]

(* the timer case of the run loop: every due entry is started and its     *)
(* Next recomputed from the time of the firing                            *)
Dispatch ==
    /\ TimerDue
    /\ DispatchFree(jobs)
    /\ LET due == {e \in entries : e.next <= now}
       IN  /\ entries' = (entries \ due) \cup
                 {[e EXCEPT !.next = ScheduleNext(e.sched, now).time,
                            !.sched = ScheduleNext(e.sched, now).sched,
                            !.fires = e.fires \cup {now}]
                      : e \in due}
           /\ jobs' = jobs \cup {StartJob(e) : e \in due}
    /\ last' = NoRun
    /\ UNCHANGED <<cycleVars, storeVars>>
    /\ UNCHANGED <<now, obj, secret, nextID, scheduleMap, mu, pc, req, es,
                   held, removed, edits, runs>>

(* the closure of a job returns: fn gave nil (ok) or an error; sent: the  *)
(* status its Status().Update sent, stored when st                        *)
JobReturn(j, ok, sent, st) ==
    /\ j \in jobs
    /\ jobs' = jobs \ {j}
    /\ entries' = EntriesAfterJob(entries, j, ok)
    /\ last' = [NoRun EXCEPT !.kind = "job", !.name = j.name,
                             !.entry = j.entry, !.fired = j.fired,
                             !.at = j.at, !.ok = ok,
                             !.interval = j.interval,
                             !.nextSync = sent.nextSync,
                             !.cond = sent.cond, !.stored = st,
                             !.live = \E e \in entries : e.id = j.entry]

(* ---------------------------------------------------------------------- *)
(* Scheduler.Add and Scheduler.Remove, lock and body                       *)
(* ---------------------------------------------------------------------- *)

(* Adds that were decided on and have not yet got their EntryID *)
PendingAdds == Cardinality({w \in Callers : pc[w] \in {"add_lock", "add_cs"}})

(* Scheduler.Add, lines 54-55 *)
AddLock(w) ==
    /\ pc[w] = "add_lock"
    /\ LockFree(mu)
    /\ mu' = mu \cup {w}
    /\ pc' = [pc EXCEPT ![w] = "add_cs"]
    /\ last' = NoRun
    /\ UNCHANGED <<cycleVars, storeVars>>
    /\ UNCHANGED <<now, obj, secret, entries, nextID, scheduleMap, req, es,
                   held, jobs, removed, edits, runs>>

(* Scheduler.Add, lines 56-73: the critical section and the unlock *)
AddCS(w) ==
    /\ pc[w] = "add_cs"
    /\ nextID' = nextID + 1
    /\ entries' = entries \cup
                    {NewEntry(req[w], es[w].interval, nextID + 1, now)}
    /\ scheduleMap' = [scheduleMap EXCEPT ![req[w]] = nextID + 1]
    /\ mu' = mu \ {w}
    /\ removed' = [removed EXCEPT ![req[w]] = FALSE]

(* a Remove that also stops the running cycles of the identity *)
JobsAfterRemoveCancelled(js, n) == {j \in js : j.name # n}

(* cron.Remove, line 81, takes the entry away and leaves the jobs that    *)
(* were started for it running                                            *)
JobsAfterRemove(js, n) == js

(* Scheduler.Remove, lines 76-77 *)
RemoveLock(w) ==
    /\ pc[w] = "remove_lock"
    /\ LockFree(mu)
    /\ mu' = mu \cup {w}
    /\ pc' = [pc EXCEPT ![w] = "remove_cs"]
    /\ last' = NoRun
    /\ UNCHANGED <<cycleVars, storeVars>>
    /\ UNCHANGED <<now, obj, secret, entries, nextID, scheduleMap, req, es,
                   held, jobs, removed, edits, runs>>

(* Scheduler.Remove, lines 78-83; in Reconcile, line 90 then returns *)
RemoveBody(w) ==
    /\ pc[w] = "remove_cs"
    /\ entries' = RemoveEntry(entries, scheduleMap, req[w])
    /\ jobs' = JobsAfterRemove(jobs, req[w])
    /\ mu' = mu \ {w}
    /\ removed' = [removed EXCEPT ![req[w]] = TRUE]
    /\ pc' = [pc EXCEPT ![w] = "idle"]
    /\ last' = [NoRun EXCEPT !.kind = "remove", !.name = req[w],
                             !.known = scheduleMap[req[w]] # NoEntry,
                             !.same = entries' = entries]
    /\ UNCHANGED <<cycleVars, storeVars>>
    /\ UNCHANGED <<now, obj, secret, nextID, scheduleMap, req, es, held,
                   edits, runs>>

(* ---------------------------------------------------------------------- *)
(* SchedSpec: the Scheduler and its callers                                *)
(* ---------------------------------------------------------------------- *)

(* a caller enters Add(extSecret, fn) for identity n with interval i and *)
(* gets the lock, lines 53-55                                             *)
AddEnter(w, n, i) ==
    /\ pc[w] = "idle"
    /\ nextID + PendingAdds < MaxEntries
    /\ LockFree(mu)
    /\ mu' = mu \cup {w}
    /\ pc' = [pc EXCEPT ![w] = "add_cs"]
    /\ req' = [req EXCEPT ![w] = n]
    /\ es' = [es EXCEPT ![w] = [NoES EXCEPT !.interval = i]]
    /\ last' = NoRun
    /\ UNCHANGED <<cycleVars, storeVars>>
    /\ UNCHANGED <<now, obj, secret, entries, nextID, scheduleMap, held,
                   jobs, removed, edits, runs>>

(* Add returns to its caller *)
AddReturn(w) ==
    /\ AddCS(w)
    /\ pc' = [pc EXCEPT ![w] = "idle"]
    /\ es' = [es EXCEPT ![w] = NoES]
    /\ last' = [NoRun EXCEPT !.kind = "add", !.name = req[w]]
    /\ UNCHANGED <<cycleVars, storeVars>>
    /\ UNCHANGED <<now, obj, secret, req, held, jobs, edits, runs>>

(* a caller enters Remove(nsn) and gets the lock, lines 75-77 *)
RemoveEnter(w, n) ==
    /\ pc[w] = "idle"
    /\ LockFree(mu)
    /\ mu' = mu \cup {w}
    /\ pc' = [pc EXCEPT ![w] = "remove_cs"]
    /\ req' = [req EXCEPT ![w] = n]
    /\ last' = NoRun
    /\ UNCHANGED <<cycleVars, storeVars>>
    /\ UNCHANGED <<now, obj, secret, entries, nextID, scheduleMap, es, held,
                   jobs, removed, edits, runs>>

(* the fn of a firing returns nil or an error *)
JobDone(j, ok) ==
    /\ JobReturn(j, ok, NoHeld, FALSE)
    /\ UNCHANGED <<cycleVars, storeVars>>
    /\ UNCHANGED <<now, obj, secret, nextID, scheduleMap, mu, pc, req, es,
                   held, removed, edits, runs>>

SchedNext ==
    \/ \E w \in Callers, n \in Names, i \in {60, 120} : AddEnter(w, n, i)
    \/ \E w \in Callers : AddReturn(w)
    \/ \E w \in Callers, n \in Names : RemoveEnter(w, n)
    \/ \E w \in Callers : RemoveBody(w)
    \/ \E d \in Delays : Tick(d, MaxTime)
    \/ Dispatch
    \/ \E j \in jobs, ok \in BOOLEAN : JobDone(j, ok)

SchedSpec == Init /\ [][SchedNext]_vars

(* ---------------------------------------------------------------------- *)
(* Spec: the external actor                                                *)
(* ---------------------------------------------------------------------- *)

(* the stored ExternalSecret n has been written: a copy of it read before *)
(* holds a resourceVersion that is no longer the stored one               *)
Outdated(h, n) == IF h.name = n THEN [h EXCEPT !.fresh = FALSE] ELSE h

(* an ExternalSecret is created, or its refreshInterval edited *)
Apply(n, i) ==
    /\ edits < MaxEdits
    /\ obj[n].interval # i \/ ~obj[n].exists
    /\ obj' = [obj EXCEPT ![n] =
                  IF obj[n].exists THEN [obj[n] EXCEPT !.interval = i]
                  ELSE [NoObject EXCEPT !.exists = TRUE, !.interval = i]]
    /\ held' = [k \in DOMAIN held |-> Outdated(held[k], n)]
    /\ jobs' = {[j EXCEPT !.sent = Outdated(@, n)] : j \in jobs}
    /\ es' = [w \in Callers |-> [es[w] EXCEPT !.sent = Outdated(@, n)]]
    /\ edits' = edits + 1
    /\ last' = NoRun
    /\ UNCHANGED <<cycleVars, storeVars>>
    /\ UNCHANGED <<now, secret, entries, nextID, scheduleMap, mu, pc, req,
                   removed, runs>>

Delete(n) ==
    /\ edits < MaxEdits
    /\ obj[n].exists
    /\ obj' = [obj EXCEPT ![n] = NoObject]
    /\ held' = [k \in DOMAIN held |-> Outdated(held[k], n)]
    /\ jobs' = {[j EXCEPT !.sent = Outdated(@, n)] : j \in jobs}
    /\ es' = [w \in Callers |-> [es[w] EXCEPT !.sent = Outdated(@, n)]]
    /\ edits' = edits + 1
    /\ last' = NoRun
    /\ UNCHANGED <<cycleVars, storeVars>>
    /\ UNCHANGED <<now, secret, entries, nextID, scheduleMap, mu, pc, req,
                   removed, runs>>

(* ---------------------------------------------------------------------- *)
(* Spec: the cycles.  A cycle works on the ExternalSecret its Reconcile    *)
(* read; the closure of an entry and the Reconcile that made the Add hold  *)
(* the same one, and no lock orders what they read and write in it.        *)
(* ---------------------------------------------------------------------- *)

(* the Status().Update of a cycle at the API server: when it is stored    *)
(* (st), the stored status becomes the one that was sent, nextSync ns and *)
(* Ready as ok tells                                                      *)
CycleObj(n, ns, ok, st) ==
    IF st
    THEN [obj EXCEPT ![n].nextSync = ns,
                     ![n].cond = IF ok THEN "Available" ELSE "Unavailable"]
    ELSE obj

(* fn of the closure is reached: sync reads the clock, lines 118-138 *)
JobBegin(j) ==
    /\ j \in jobs
    /\ j.phase = "fired"
    /\ jobs' = (jobs \ {j}) \cup {[j EXCEPT !.phase = "begun", !.at = now]}
    /\ held' = [held EXCEPT ![j.entry].nextSync =
                   NextSync([interval |-> j.interval, nextSync |-> @], now)]
    /\ last' = NoRun
    /\ UNCHANGED <<cycleVars, storeVars>>
    /\ UNCHANGED <<now, obj, secret, entries, nextID, scheduleMap, mu, pc,
                   req, es, removed, edits, runs>>

(* CreateOrUpdate of line 147 returns *)
JobWrite(j, ok) ==
    /\ j \in jobs
    /\ j.phase = "begun"
    /\ jobs' = (jobs \ {j}) \cup {[j EXCEPT !.phase = "written", !.ok = ok]}
    /\ secret' = IF ok THEN [secret EXCEPT ![j.name] = TRUE] ELSE secret
    /\ last' = NoRun
    /\ UNCHANGED <<cycleVars, storeVars>>
    /\ UNCHANGED <<now, obj, entries, nextID, scheduleMap, mu, pc, req, es,
                   held, removed, edits, runs>>

(* lines 176-182: SetConditions *)
JobSet(j) ==
    /\ j \in jobs
    /\ j.phase = "written"
    /\ jobs' = (jobs \ {j}) \cup {[j EXCEPT !.phase = "set"]}
    /\ held' = [held EXCEPT ![j.entry].cond =
                   IF j.ok THEN "Available" ELSE "Unavailable"]
    /\ last' = NoRun
    /\ UNCHANGED <<cycleVars, storeVars>>
    /\ UNCHANGED <<now, obj, secret, entries, nextID, scheduleMap, mu, pc,
                   req, es, removed, edits, runs>>

(* the deferred Status().Update of line 141 marshals the ExternalSecret   *)
(* as it is in memory by now and sends it                                 *)
JobSend(j) ==
    /\ j \in jobs
    /\ j.phase = "set"
    /\ jobs' = (jobs \ {j}) \cup
                {[j EXCEPT !.phase = "sent", !.sent = held[j.entry]]}
    /\ last' = NoRun
    /\ UNCHANGED <<cycleVars, storeVars>>
    /\ UNCHANGED <<now, obj, secret, entries, nextID, scheduleMap, mu, pc,
                   req, es, held, removed, edits, runs>>

(* the API server answers the update: it stores the status sent (st),     *)
(* which takes a stored request at the resourceVersion sent, or it        *)
(* refuses; what it stored is the reply, at the new resourceVersion       *)
JobStore(j, st) ==
    /\ j \in jobs
    /\ j.phase = "sent"
    /\ st => (obj[j.name].exists /\ j.sent.fresh)
    /\ obj' = CycleObj(j.name, j.sent.nextSync, j.sent.cond = "Available",
                       st)
    /\ IF st
       THEN /\ held' = [k \in DOMAIN held |-> Outdated(held[k], j.name)]
            /\ jobs' = {[i EXCEPT !.sent = Outdated(@, j.name)]
                            : i \in jobs \ {j}}
                       \cup {[j EXCEPT !.phase = "stored", !.st = TRUE]}
            /\ es' = [w \in Callers |->
                         [es[w] EXCEPT !.sent = Outdated(@, j.name)]]
       ELSE /\ jobs' = (jobs \ {j}) \cup {[j EXCEPT !.phase = "stored"]}
            /\ UNCHANGED <<held, es>>
    /\ last' = NoRun
    /\ UNCHANGED <<cycleVars, storeVars>>
    /\ UNCHANGED <<now, secret, entries, nextID, scheduleMap, mu, pc, req,
                   removed, edits, runs>>

(* Status().Update returns: a reply is decoded into the ExternalSecret    *)
(* that was sent, an error is logged; then sync and the closure return    *)
JobEnd(j) ==
    /\ j.phase = "stored"
    /\ held' = IF j.st THEN [held EXCEPT ![j.entry] = j.sent] ELSE held
    /\ JobReturn(j, j.ok, j.sent, j.st)
    /\ UNCHANGED <<cycleVars, storeVars>>
    /\ UNCHANGED <<now, obj, secret, nextID, scheduleMap, mu, pc, req, es,
                   removed, edits, runs>>

(* ---------------------------------------------------------------------- *)
(* Spec: Reconcile                                                         *)
(* ---------------------------------------------------------------------- *)

Run(n, e) == [NoRun EXCEPT !.kind = "reconcile", !.name = n, !.found = TRUE,
                           !.interval = e.interval, !.seen = e.seen,
                           !.added = e.added, !.entry = e.entry]

(* lines 85-105: r.Get, then the choice between Remove and Add *)
ReconcileGet(w, n, getErr) ==
    /\ pc[w] = "idle"
    /\ runs < MaxRuns
    /\ runs' = runs + 1
    /\ req' = [req EXCEPT ![w] = n]
    /\ IF getErr
       THEN /\ last' = [NoRun EXCEPT !.kind = "reconcile", !.name = n,
                                     !.ok = FALSE, !.err = TRUE]
            /\ UNCHANGED <<pc, es, held>>
       ELSE IF ~obj[n].exists
       THEN /\ pc' = [pc EXCEPT ![w] = "remove_lock"]
            /\ last' = NoRun
            /\ UNCHANGED <<es, held>>
       ELSE LET e == [NoES EXCEPT !.interval = obj[n].interval,
                                  !.seen = obj[n].nextSync]
            IN  /\ shouldSchedule(e) => nextID + PendingAdds < MaxEntries
                /\ pc' = [pc EXCEPT ![w] =
                             IF shouldSchedule(e) THEN "add_lock" ELSE "sync"]
                /\ es' = [es EXCEPT ![w] = e]
                /\ held' = [held EXCEPT ![NoEntry] =
                               [name |-> n, nextSync |-> obj[n].nextSync,
                                cond |-> obj[n].cond, fresh |-> TRUE]]
                /\ last' = NoRun
    /\ UNCHANGED <<cycleVars, storeVars>>
    /\ UNCHANGED <<now, obj, secret, entries, nextID, scheduleMap, mu, jobs,
                   removed, edits>>

(* line 104: the body of Add, its unlock and its return to Reconcile; the *)
(* closure of the new entry holds the ExternalSecret of this Reconcile    *)
AddBody(w) ==
    /\ AddCS(w)
    /\ pc' = [pc EXCEPT ![w] = "sync"]
    /\ es' = [es EXCEPT ![w].added = TRUE, ![w].entry = nextID + 1]
    /\ held' = [held EXCEPT ![nextID + 1] = held[NoEntry],
                            ![NoEntry] = NoHeld]
    /\ last' = NoRun
    /\ UNCHANGED <<cycleVars, storeVars>>
    /\ UNCHANGED <<now, obj, secret, req, jobs, edits, runs>>

(* lines 106-138 of Reconcile and sync: the sync is skipped, or it starts *)
(* and reads the clock                                                    *)
Proceed(w) ==
    /\ pc[w] = "sync"
    /\ IF skipSync([interval |-> es[w].interval,
                    nextSync |-> held[es[w].entry].nextSync])
       THEN /\ pc' = [pc EXCEPT ![w] = "idle"]
            /\ es' = [es EXCEPT ![w] = NoES]
            /\ held' = IF es[w].entry = NoEntry
                       THEN [held EXCEPT ![NoEntry] = NoHeld]
                       ELSE held
            /\ last' = Run(req[w], es[w])
       ELSE /\ pc' = [pc EXCEPT ![w] = "begun"]
            /\ es' = [es EXCEPT ![w].at = now]
            /\ held' = [held EXCEPT ![es[w].entry].nextSync =
                           NextSync([interval |-> es[w].interval,
                                     nextSync |-> @], now)]
            /\ last' = NoRun
    /\ UNCHANGED <<cycleVars, storeVars>>
    /\ UNCHANGED <<now, obj, secret, entries, nextID, scheduleMap, mu, req,
                   jobs, removed, edits, runs>>

(* CreateOrUpdate of line 147 returns *)
SyncWrite(w, ok) ==
    /\ pc[w] = "begun"
    /\ pc' = [pc EXCEPT ![w] = "written"]
    /\ es' = [es EXCEPT ![w].ok = ok]
    /\ secret' = IF ok THEN [secret EXCEPT ![req[w]] = TRUE] ELSE secret
    /\ last' = NoRun
    /\ UNCHANGED <<cycleVars, storeVars>>
    /\ UNCHANGED <<now, obj, entries, nextID, scheduleMap, mu, req, held,
                   jobs, removed, edits, runs>>

(* lines 176-182: SetConditions *)
SyncSet(w) ==
    /\ pc[w] = "written"
    /\ pc' = [pc EXCEPT ![w] = "set"]
    /\ held' = [held EXCEPT ![es[w].entry].cond =
                   IF es[w].ok THEN "Available" ELSE "Unavailable"]
    /\ last' = NoRun
    /\ UNCHANGED <<cycleVars, storeVars>>
    /\ UNCHANGED <<now, obj, secret, entries, nextID, scheduleMap, mu, req,
                   es, jobs, removed, edits, runs>>

(* the deferred Status().Update of line 141 marshals the ExternalSecret   *)
(* as it is in memory by now and sends it                                 *)
SyncSend(w) ==
    /\ pc[w] = "set"
    /\ pc' = [pc EXCEPT ![w] = "sent"]
    /\ es' = [es EXCEPT ![w].sent = held[es[w].entry]]
    /\ last' = NoRun
    /\ UNCHANGED <<cycleVars, storeVars>>
    /\ UNCHANGED <<now, obj, secret, entries, nextID, scheduleMap, mu, req,
                   held, jobs, removed, edits, runs>>

(* the API server answers the update, as in JobStore *)
SyncStore(w, st) ==
    /\ pc[w] = "sent"
    /\ st => (obj[req[w]].exists /\ es[w].sent.fresh)
    /\ pc' = [pc EXCEPT ![w] = "stored"]
    /\ obj' = CycleObj(req[w], es[w].sent.nextSync,
                       es[w].sent.cond = "Available", st)
    /\ IF st
       THEN /\ held' = [k \in DOMAIN held |-> Outdated(held[k], req[w])]
            /\ jobs' = {[i EXCEPT !.sent = Outdated(@, req[w])] : i \in jobs}
            /\ es' = [es EXCEPT ![w].st = TRUE]
       ELSE UNCHANGED <<held, jobs, es>>
    /\ last' = NoRun
    /\ UNCHANGED <<cycleVars, storeVars>>
    /\ UNCHANGED <<now, secret, entries, nextID, scheduleMap, mu, req,
                   removed, edits, runs>>

(* Status().Update returns: a reply is decoded into the ExternalSecret    *)
(* that was sent, an error is logged; the synchronous es.sync() of line   *)
(* 110 returns, and Reconcile with it                                     *)
SyncEnd(w) ==
    /\ pc[w] = "stored"
    /\ pc' = [pc EXCEPT ![w] = "idle"]
    /\ es' = [es EXCEPT ![w] = NoES]
    /\ held' = IF es[w].entry = NoEntry
               THEN [held EXCEPT ![NoEntry] = NoHeld]
               ELSE IF es[w].st
               THEN [held EXCEPT ![es[w].entry] = es[w].sent]
               ELSE held
    /\ last' = [Run(req[w], es[w]) EXCEPT
                   !.syncs = 1, !.ok = es[w].ok,
                   !.requeue = ReconcileResult(es[w].ok).requeue,
                   !.after = ReconcileResult(es[w].ok).after,
                   !.err = ReconcileResult(es[w].ok).err,
                   !.at = es[w].at,
                   !.nextSync = es[w].sent.nextSync,
                   !.cond = es[w].sent.cond,
                   !.stored = es[w].st]
    /\ UNCHANGED <<cycleVars, storeVars>>
    /\ UNCHANGED <<now, obj, secret, entries, nextID, scheduleMap, mu, req,
                   jobs, removed, edits, runs>>

Next ==
    \/ \E n \in SpecNames, i \in Intervals : Apply(n, i)
    \/ \E n \in Names : Delete(n)
    \/ \E d \in Delays : Tick(d, MaxTime)
    \/ Dispatch /\ Cardinality(jobs') <= MaxJobs
    \/ \E j \in jobs : JobBegin(j)
    \/ \E j \in jobs, ok \in BOOLEAN : JobWrite(j, ok)
    \/ \E j \in jobs : JobSet(j)
    \/ \E j \in jobs : JobSend(j)
    \/ \E j \in jobs, st \in BOOLEAN : JobStore(j, st)
    \/ \E j \in jobs : JobEnd(j)
    \/ \E n \in SpecNames, g \in BOOLEAN : ReconcileGet(Worker, n, g)
    \/ AddLock(Worker)
    \/ AddBody(Worker)
    \/ RemoveLock(Worker)
    \/ RemoveBody(Worker)
    \/ Proceed(Worker)
    \/ \E ok \in BOOLEAN : SyncWrite(Worker, ok)
    \/ SyncSet(Worker)
    \/ SyncSend(Worker)
    \/ \E st \in BOOLEAN : SyncStore(Worker, st)
    \/ SyncEnd(Worker)

Spec == Init /\ [][Next]_vars

(* ---------------------------------------------------------------------- *)
(* CycleSpec: the payload of a cycle (getSecret, templateSecret)           *)
(* ---------------------------------------------------------------------- *)

(* dataFrom and data entries of a request *)
MaxFrom == 2
MaxData == 2

(* the keys of the payload *)
Keys == {"a", "b"}
(* what a backend holds under a key: byte strings of two and three bytes  *)
Values == {<<255, 0>>, <<104, 105, 33>>}
(* a literal data entry of a template *)
Literal == <<7>>
(* Spec.Template, the Secret json.Unmarshal makes of it: nil, JSON that   *)
(* does not parse, a template without data entries, a template with a     *)
(* literal for key b, a template with a literal, labels and annotations,  *)
(* and templates that set metadata.ownerReferences (a controller, and an  *)
(* owner that is none), metadata.name, type, or a stringData entry        *)
Templates ==
    {[kind |-> "none", data |-> EmptyMap, meta |-> NoMeta],
     [kind |-> "bad", data |-> EmptyMap, meta |-> NoMeta],
     [kind |-> "ok", data |-> EmptyMap, meta |-> NoMeta],
     [kind |-> "ok", data |-> [k \in {"b"} |-> Literal], meta |-> NoMeta],
     [kind |-> "ok", data |-> [k \in {"b"} |-> Literal],
      meta |-> [NoMeta EXCEPT
                   !.labels = [k \in {"app", "tier"} |-> "template"],
                   !.annotations = [k \in {"note"} |-> "template"]]]}
    \cup {[kind |-> "ok", data |-> EmptyMap, meta |-> m] :
             m \in {[NoMeta EXCEPT !.owners = {[name |-> "other",
                                                controller |-> c]}]
                       : c \in BOOLEAN}
                   \cup {[NoMeta EXCEPT !.name = "ns/b"],
                         [NoMeta EXCEPT !.type = "custom"],
                         [NoMeta EXCEPT
                             !.stringData = [k \in {"b"} |-> <<9>>]]}}
(* the request of CycleSpec *)
CycleName == "ns/a"
(* what the mutate function makes of a Secret built from nothing, Data    *)
(* and template apart: Name and Namespace of lines 121-126, es.Labels and *)
(* es.Annotations, and the request as the controller                      *)
RequestMeta == [name |-> CycleName,
                labels |-> [k \in {"app", "env"} |-> "request"],
                annotations |-> [k \in {"note", "owner"} |-> "request"],
                owners |-> {[name |-> CycleName, controller |-> TRUE]},
                created |-> FALSE, type |-> "", stringData |-> EmptyMap]
(* the target Secret before the cycle: none, one holding key a with the   *)
(* payload "/wA=" of an earlier cycle, or one another controller owns;    *)
(* a stored Secret has its CreationTimestamp                              *)
Targets == {[exists |-> FALSE, data |-> EmptyMap, meta |-> NoMeta],
            [exists |-> TRUE, data |-> [k \in {"a"} |-> <<47, 119, 65, 61>>],
             meta |-> [RequestMeta EXCEPT !.created = TRUE]],
            [exists |-> TRUE, data |-> [k \in {"a"} |-> <<47, 119, 65, 61>>],
             meta |-> [RequestMeta EXCEPT
                          !.created = TRUE,
                          !.owners = {[name |-> "other",
                                       controller |-> TRUE]}]]}
(* what a fetch gives: a map (GetSecretMap), any map over Keys, a value   *)
(* (GetSecret), or an error for a reference whose Name is set or is nil   *)
FromResults == {[ok |-> TRUE, named |-> TRUE, map |-> m]
                   : m \in UNION {[d -> Values] : d \in SUBSET Keys}}
               \cup {[ok |-> FALSE, named |-> n, map |-> EmptyMap]
                        : n \in BOOLEAN}
DataResults == {[ok |-> TRUE, named |-> TRUE, value |-> v] : v \in Values}
               \cup {[ok |-> FALSE, named |-> n, value |-> <<>>]
                        : n \in BOOLEAN}

(* the 64 characters of base64.StdEncoding, as ASCII codes, and the pad *)
StdChar(i) ==
    CASE i < 26 -> 65 + i
      [] i < 52 -> 97 + (i - 26)
      [] i < 62 -> 48 + (i - 52)
      [] i = 62 -> 43
      [] OTHER  -> 47
StdPadding == 61

RECURSIVE EncodeNoPadding(_)
(* base64.RawStdEncoding: no padding *)
EncodeNoPadding(b) ==
    IF Len(b) = 0 THEN <<>>
    ELSE IF Len(b) = 1
    THEN LET n == b[1] * 65536
         IN  <<StdChar(n \div 262144), StdChar((n \div 4096) % 64)>>
    ELSE IF Len(b) = 2
    THEN LET n == b[1] * 65536 + b[2] * 256
         IN  <<StdChar(n \div 262144), StdChar((n \div 4096) % 64),
               StdChar((n \div 64) % 64)>>
    ELSE LET n == b[1] * 65536 + b[2] * 256 + b[3]
         IN  <<StdChar(n \div 262144), StdChar((n \div 4096) % 64),
               StdChar((n \div 64) % 64), StdChar(n % 64)>>
             \o EncodeNoPadding(SubSeq(b, 4, Len(b)))

RECURSIVE Encode(_)
(* base64.StdEncoding.Encode, lines 243-244: three bytes give four        *)
(* characters, a last group of one or two bytes is padded with '='        *)
Encode(b) ==
    IF Len(b) = 0 THEN <<>>
    ELSE IF Len(b) = 1
    THEN LET n == b[1] * 65536
         IN  <<StdChar(n \div 262144), StdChar((n \div 4096) % 64),
               StdPadding, StdPadding>>
    ELSE IF Len(b) = 2
    THEN LET n == b[1] * 65536 + b[2] * 256
         IN  <<StdChar(n \div 262144), StdChar((n \div 4096) % 64),
               StdChar((n \div 64) % 64), StdPadding>>
    ELSE LET n == b[1] * 65536 + b[2] * 256 + b[3]
         IN  <<StdChar(n \div 262144), StdChar((n \div 4096) % 64),
               StdChar((n \div 64) % 64), StdChar(n % 64)>>
             \o Encode(SubSeq(b, 4, Len(b)))

(* lines 242-246: every value of the map is replaced by its encoding *)
EncodeAll(m) == [k \in DOMAIN m |-> Encode(m[k])]

(* merge.Merge(dst, src): the keys of both, src winning on a collision *)
Merge(dst, src) ==
    [k \in DOMAIN dst \cup DOMAIN src |->
        IF k \in DOMAIN src THEN src[k] ELSE dst[k]]

(* the arguments of merge.Merge the other way round *)
MergeFromSwapped(acc, m) == Merge(m, acc)

(* line 228: secretDataMap = merge.Merge(secretDataMap, secretMap) *)
MergeFrom(acc, m) == Merge(acc, m)

(* an assignment that keeps the value a key already has *)
AssignDataKeepFirst(acc, k, v) ==
    [x \in DOMAIN acc \cup {k} |-> IF x \in DOMAIN acc THEN acc[x] ELSE v]

(* line 239: secretDataMap[secretRef.SecretKey] = secretData *)
AssignData(acc, k, v) ==
    [x \in DOMAIN acc \cup {k} |-> IF x = k THEN v ELSE acc[x]]

(* a merge of two maps in which the entries of dst are kept *)
mergoMapKeepDst(dst, src) ==
    [k \in DOMAIN dst \cup DOMAIN src |->
        IF k \in DOMAIN dst THEN dst[k] ELSE src[k]]

(* mergo.Merge with mergo.WithOverride on a map field, line 279: the      *)
(* entries of src are set over the entries of dst                         *)
mergoMap(dst, src) ==
    [k \in DOMAIN dst \cup DOMAIN src |->
        IF k \in DOMAIN src THEN src[k] ELSE dst[k]]

(* templateSecret, lines 273-280, after json.Unmarshal has given the      *)
(* template t: mergo.Merge with WithOverride goes through the fields of   *)
(* the Secret.  The maps of the template (Data, StringData, Labels,       *)
(* Annotations) are merged over those of the Secret s; a name, a type and *)
(* a list of ownerReferences the template sets replace those of s, and    *)
(* those it leaves empty leave s as it is.  The CreationTimestamp is a    *)
(* struct without exported fields, which mergo sets from the template     *)
(* whatever it holds: a template that does not set it resets it to the    *)
(* zero time                                                              *)
templateSecret(s, t) ==
    [data |-> mergoMap(s.data, t.data),
     meta |-> [name |-> IF t.meta.name # "" THEN t.meta.name
                        ELSE s.meta.name,
               labels |-> mergoMap(s.meta.labels, t.meta.labels),
               annotations |-> mergoMap(s.meta.annotations,
                                        t.meta.annotations),
               owners |-> IF t.meta.owners # {} THEN t.meta.owners
                          ELSE s.meta.owners,
               created |-> t.meta.created,
               type |-> IF t.meta.type # "" THEN t.meta.type
                        ELSE s.meta.type,
               stringData |-> mergoMap(s.meta.stringData,
                                       t.meta.stringData)]]

(* controllerutil.SetControllerReference, line 160, on the owner          *)
(* references of a Secret for the request n: an error when another owner  *)
(* is the controller already, else the reference to n is put in place of  *)
(* one to n that is there, or added                                       *)
SetControllerReference(owners, n) ==
    [ok |-> \A r \in owners : r.controller => r.name = n,
     owners |-> {r \in owners : r.name # n}
                \cup {[name |-> n, controller |-> TRUE]}]

(* the Secret the API server keeps of the Secret s sent with Create or    *)
(* Update: the entries of StringData are laid over Data, and StringData   *)
(* itself is not kept; the CreationTimestamp is the server's, set at the  *)
(* Create and kept at every Update whatever the request holds             *)
Persisted(s) ==
    [exists |-> TRUE, data |-> mergoMap(s.data, s.meta.stringData),
     meta |-> [s.meta EXCEPT !.stringData = EmptyMap, !.created = TRUE]]

(* fmt.Errorf("%s: %w", msg, err): the message, then the wrapped error *)
Wrap(msg, e) == <<msg>> \o e

(* ---------------------------------------------------------------------- *)
(* CycleSpec: externalSecretSyncer.sync step by step                       *)
(* ---------------------------------------------------------------------- *)

(* the error a failing call of a step returns *)
Cause(step) == <<step, "failed">>

(* a failed step that does not end the mutate function *)
AfterStepGoOn(next, ok) == next

(* the "if err != nil { return ... }" after every step of the mutate      *)
(* function of lines 147-175                                              *)
AfterStep(next, ok) == IF ok THEN next ELSE "return"

(* lines 222-227 and 233-238: the error of a failed fetch is wrapped with *)
(* *remoteRef.Name, which panics when Name is nil                         *)
FetchError(named) == IF named THEN "error" ELSE "panic"

(* a write that stores the Secret although the call failed *)
TargetAfterWriteAlways(t, s, ok) == Persisted(s)

(* Create or Update of CreateOrUpdate, line 147: the Secret is stored     *)
(* with the mutated data, or not at all                                   *)
TargetAfterWrite(t, s, ok) == IF ok THEN Persisted(s) ELSE t

(* lines 176-181: Unavailable with the message of the error, or Available *)
Condition(e) ==
    IF e # <<>>
    THEN [cond |-> "Unavailable", msg |-> e]
    ELSE [cond |-> "Available", msg |-> <<>>]

Step(step, ok) == [step |-> step, ok |-> ok]

otherVars == <<now, entries, nextID, scheduleMap, mu, pc, req, es, held,
               jobs, removed, last, edits, runs, cycles, storeVars>>

(* the request exists with an interval, and the target is there or not *)
CycleInit ==
    /\ now = StartTime
    /\ \E i \in {60} :
          obj = [n \in Names |->
                    IF n = CycleName
                    THEN [NoObject EXCEPT !.exists = TRUE, !.interval = i]
                    ELSE NoObject]
    /\ target \in Targets
    /\ secret = [n \in Names |-> n = CycleName /\ target.exists]
    /\ entries = {}
    /\ nextID = 0
    /\ scheduleMap = [n \in Names |-> NoEntry]
    /\ mu = {}
    /\ pc = [w \in Callers |-> "idle"]
    /\ req = [w \in Callers |-> CycleName]
    /\ es = [w \in Callers |-> NoES]
    /\ held = [k \in 0..MaxEntries |-> NoHeld]
    /\ jobs = {}
    /\ removed = [n \in Names |-> FALSE]
    /\ last = NoRun
    /\ edits = 0
    /\ runs = 0
    /\ phase = "idle"
    /\ extSecret = NoStatus
    /\ secretData = EmptyMap
    /\ secretDataMap = EmptyMap
    /\ secretMeta = NoMeta
    /\ err = <<>>
    /\ hist = NoHist
    /\ cycles = <<>>
    /\ StoreIdle

(* lines 118-138: sync starts, builds the Secret with the name and the    *)
(* namespace of the request and sets Status.NextSync                      *)
SyncStart ==
    /\ phase = "idle"
    /\ phase' = "get"
    /\ extSecret' = [extSecret EXCEPT
                        !.nextSync = NextSync(obj[CycleName], now),
                        !.cond = obj[CycleName].cond]
    /\ secretMeta' = [NoMeta EXCEPT !.name = CycleName]
    /\ hist' = [hist EXCEPT !.before = target]
    /\ UNCHANGED <<obj, secret, secretData, secretDataMap, target, err,
                   otherVars>>

(* a step of the mutate function, or the Get before it, that succeeds or  *)
(* fails and leaves the Secret with the metadata, type and stringData     *)
(* meta and the data data                                                 *)
PlainStep(at, next, wrapped, ok, meta, data) ==
    /\ phase = at
    /\ phase' = AfterStep(next, ok)
    /\ err' = IF ok THEN err ELSE wrapped
    /\ secretMeta' = meta
    /\ secretData' = data
    /\ hist' = [hist EXCEPT !.steps = Append(@, Step(at, ok))]
    /\ UNCHANGED <<obj, secret, extSecret, secretDataMap, target, otherVars>>

(* CreateOrUpdate, line 147: it first reads the Secret into secret; a     *)
(* Secret that is there fills in its metadata, type and data, one that is *)
(* not found leaves secret as sync built it                               *)
GetTarget(ok) ==
    PlainStep("get", "store", Cause("get"), ok,
              IF ok /\ target.exists THEN target.meta ELSE secretMeta,
              IF ok /\ target.exists THEN target.data ELSE secretData)

(* lines 148-151, getStore *)
GetStore(ok) ==
    PlainStep("store", "client",
              Wrap("cannot get store reference",
                   Wrap("SecretStore", Cause("store"))), ok, secretMeta,
              secretData)

(* lines 153-156, storeFactory.New *)
NewClient(ok) ==
    PlainStep("client", "owner",
              Wrap("cannot setup store client", Cause("client")), ok,
              secretMeta, secretData)

(* lines 158-163: the labels and annotations of the request are set on    *)
(* the Secret, then the controller reference, which fails on a Secret     *)
(* another controller owns                                                *)
SetOwner(ok) ==
    LET r == SetControllerReference(secretMeta.owners, CycleName)
        m == [secretMeta EXCEPT !.labels = RequestMeta.labels,
                                !.annotations = RequestMeta.annotations]
    IN  /\ ~r.ok => ~ok
        /\ PlainStep("owner", "from",
                     Wrap("failed to set ExternalSecret controller reference",
                          Cause("owner")), ok,
                     IF ok THEN [m EXCEPT !.owners = r.owners] ELSE m,
                     secretData)

(* the outcome of one fetch of getSecret: the loop goes on, getSecret     *)
(* returns nil and the wrapped error, or it panics; when sync panics the  *)
(* deferred Status().Update of lines 140-145 runs (st: it is stored) with *)
(* NextSync set and the conditions as read                                *)
Fetched(at, r, st) ==
    /\ phase = at
    /\ st => (~r.ok /\ FetchError(r.named) = "panic")
    /\ phase' = IF r.ok THEN at
                ELSE IF FetchError(r.named) = "panic" THEN "crashed"
                ELSE AfterStep(at, FALSE)
    /\ err' = IF r.ok THEN err
              ELSE Wrap("cannot get ExternalSecret data from store",
                        Wrap("path", Cause(at)))
    /\ obj' = IF st
              THEN [obj EXCEPT ![CycleName].nextSync = extSecret.nextSync]
              ELSE obj
    /\ secretData' = IF r.ok \/ phase' = "crashed" THEN secretData
                     ELSE EmptyMap
    /\ UNCHANGED <<secret, extSecret, secretMeta, target, otherVars>>

(* lines 220-229: one dataFrom entry is fetched and merged *)
FetchFrom(r, st) ==
    /\ Len(hist.from) < MaxFrom
    /\ Fetched("from", r, st)
    /\ secretDataMap' = IF r.ok THEN MergeFrom(secretDataMap, r.map)
                        ELSE EmptyMap
    /\ hist' = [hist EXCEPT
                   !.from = IF r.ok THEN Append(@, r.map) ELSE <<>>,
                   !.data = IF r.ok THEN @ ELSE <<>>,
                   !.steps = Append(@, Step("from", r.ok)),
                   !.updates = IF phase' = "crashed" THEN Append(@, st)
                               ELSE @]

(* the dataFrom entries are through *)
EndFrom ==
    /\ phase = "from"
    /\ phase' = "data"
    /\ UNCHANGED <<obj, secret, extSecret, secretData, secretDataMap,
                   secretMeta, target, err, hist, otherVars>>

(* lines 231-240: one data entry is fetched and set under its secretKey *)
FetchData(k, r, st) ==
    /\ Len(hist.data) < MaxData
    /\ Fetched("data", r, st)
    /\ secretDataMap' = IF r.ok THEN AssignData(secretDataMap, k, r.value)
                        ELSE EmptyMap
    /\ hist' = [hist EXCEPT
                   !.from = IF r.ok THEN @ ELSE <<>>,
                   !.data = IF r.ok THEN Append(@, <<k, r.value>>) ELSE <<>>,
                   !.steps = Append(@, Step("data", r.ok)),
                   !.updates = IF phase' = "crashed" THEN Append(@, st)
                               ELSE @]

(* lines 242-248: the data entries are through, the values are encoded    *)
(* and getSecret returns the map, which becomes secret.Data               *)
EncodeData ==
    /\ phase = "data"
    /\ phase' = "template"
    /\ secretDataMap' = EncodeAll(secretDataMap)
    /\ secretData' = secretDataMap'
    /\ hist' = [hist EXCEPT !.from = <<>>, !.data = <<>>,
                            !.merged = secretDataMap,
                            !.steps = Append(@, Step("encode", TRUE))]
    /\ UNCHANGED <<obj, secret, extSecret, secretMeta, target, err,
                   otherVars>>

(* lines 168-173: the template, if the request has one *)
Template(t) ==
    /\ phase = "template"
    /\ extSecret' = [extSecret EXCEPT !.template = t]
    /\ phase' = AfterStep("write", t.kind # "bad")
    /\ LET s == [data |-> secretData, meta |-> secretMeta]
           r == IF t.kind = "ok" THEN templateSecret(s, t) ELSE s
       IN  /\ secretData' = r.data
           /\ secretMeta' = r.meta
    /\ err' = IF t.kind = "bad"
              THEN Wrap("failed to merge secret with template field",
                        Wrap("error unmarshalling json", Cause("template")))
              ELSE err
    /\ hist' = [hist EXCEPT
                   !.steps = IF t.kind = "none" THEN @
                             ELSE Append(@, Step("template", t.kind # "bad"))]
    /\ UNCHANGED <<obj, secret, secretDataMap, target, otherVars>>

(* CreateOrUpdate after the mutate function: an error when the mutate     *)
(* function changed the name or the namespace, else Create when the       *)
(* Secret was not found, Update when the mutate function changed it, else *)
(* no call; the API server refuses an Update that changes the type.  The  *)
(* Secret is compared whole: after a template that parsed, its            *)
(* CreationTimestamp is not the one read, and the Update is sent          *)
Write(ok) ==
    /\ phase = "write"
    /\ LET s == [data |-> secretData, meta |-> secretMeta]
           same == target.exists /\ target.data = s.data
                   /\ target.meta = s.meta
       IN  /\ same => ok
           /\ s.meta.name # CycleName => ~ok
           /\ (target.exists /\ s.meta.type # target.meta.type) => ~ok
           /\ target' = IF same THEN target
                        ELSE TargetAfterWrite(target, s, ok)
           /\ hist' = [hist EXCEPT
                          !.steps = IF same THEN @
                                    ELSE Append(@, Step("write", ok))]
    /\ secret' = [secret EXCEPT ![CycleName] = target'.exists]
    /\ phase' = "return"
    /\ err' = IF ok THEN err ELSE Cause("write")
    /\ UNCHANGED <<obj, extSecret, secretData, secretDataMap, secretMeta,
                   otherVars>>

(* lines 176-182 and the deferred Status().Update of lines 140-145: the   *)
(* condition is set, sync returns, the status is stored (st) or not       *)
Return(st) ==
    /\ phase = "return"
    /\ phase' = "done"
    /\ err' = IF err = <<>> THEN err
              ELSE Wrap("cannot create/update ExternalSecret data from store",
                        err)
    /\ extSecret' = [extSecret EXCEPT !.cond = Condition(err').cond,
                                      !.msg = Condition(err').msg]
    /\ obj' = CycleObj(CycleName, extSecret.nextSync, err = <<>>, st)
    /\ hist' = [hist EXCEPT !.updates = Append(@, st)]
    /\ UNCHANGED <<secret, secretData, secretDataMap, secretMeta, target,
                   otherVars>>

CycleNext ==
    \/ SyncStart
    \/ \E ok \in BOOLEAN : GetTarget(ok)
    \/ \E ok \in BOOLEAN : GetStore(ok)
    \/ \E ok \in BOOLEAN : NewClient(ok)
    \/ \E ok \in BOOLEAN : SetOwner(ok)
    \/ \E r \in FromResults, st \in BOOLEAN : FetchFrom(r, st)
    \/ EndFrom
    \/ \E k \in Keys, r \in DataResults, st \in BOOLEAN : FetchData(k, r, st)
    \/ EncodeData
    \/ \E t \in Templates : Template(t)
    \/ \E ok \in BOOLEAN : Write(ok)
    \/ \E st \in BOOLEAN : Return(st)

CycleSpec == CycleInit /\ [][CycleNext]_vars

(* ---------------------------------------------------------------------- *)
(* RaceSpec: a scheduled cycle and the cycle of a Reconcile, both for the  *)
(* same request, over one target Secret                                    *)
(* ---------------------------------------------------------------------- *)

(* who started a cycle: the job closure of Scheduler.Add, or Reconcile *)
Triggers == {"job", "sync"}

(* a cycle that has not started.  seen: the Secret as CreateOrUpdate read *)
(* it; lookup: the request and what getStore asked for, kept until the    *)
(* next step; inputs: the fetched map and the template; secret: the       *)
(* Secret after the mutate function; status: the condition the cycle set; *)
(* sent: the ExternalSecret as its Status().Update marshalled it, then    *)
(* the reply to it; st: the call stored it                                *)
NoCycle == [phase |-> "idle", seen |-> <<>>, lookup |-> <<>>,
            inputs |-> <<>>, secret |-> <<>>, err |-> <<>>, status |-> <<>>,
            sent |-> <<>>, st |-> FALSE]

(* getStore, lines 251-271: the branch is taken on the Kind of the        *)
(* ExternalSecret itself (its TypeMeta), the name is Spec.StoreRef.Name;  *)
(* found: the scopes in which a store of that name exists                 *)
getStore(e, found) ==
    IF e.kind = "ClusterSecretStore"
    THEN [scope |-> "cluster", namespace |-> "", name |-> e.storeRef.name,
          ok |-> "cluster" \in found,
          err |-> Wrap("ClusterSecretStore", Cause("store"))]
    ELSE [scope |-> "namespace", namespace |-> e.namespace,
          name |-> e.storeRef.name,
          ok |-> "namespace" \in found,
          err |-> Wrap("SecretStore", Cause("store"))]

(* the Secret sync built and CreateOrUpdate read into: the name and the   *)
(* namespace of the request, and what the Secret seen holds if it exists  *)
InMemory(seen) ==
    IF seen.exists THEN seen.meta ELSE [NoMeta EXCEPT !.name = CycleName]

(* a mutate function that lays the fetched data over the data read *)
PayloadOverSeen(seen, m, t) ==
    LET s == [data |-> mergoMap(seen.data, EncodeAll(m)),
              meta |-> [InMemory(seen) EXCEPT
                  !.labels = RequestMeta.labels,
                  !.annotations = RequestMeta.annotations,
                  !.owners = SetControllerReference(@, CycleName).owners]]
        r == IF t.kind = "ok" THEN templateSecret(s, t) ELSE s
    IN  [exists |-> TRUE, data |-> r.data, meta |-> r.meta]

(* the mutate function, lines 158-173, on the Secret seen: Labels and     *)
(* Annotations become those of the request, the request becomes the       *)
(* controller among the owners, Data becomes what getSecret returned, and *)
(* the template is merged over all of it                                  *)
Payload(seen, m, t) ==
    LET s == [data |-> EncodeAll(m),
              meta |-> [InMemory(seen) EXCEPT
                  !.labels = RequestMeta.labels,
                  !.annotations = RequestMeta.annotations,
                  !.owners = SetControllerReference(@, CycleName).owners]]
        r == IF t.kind = "ok" THEN templateSecret(s, t) ELSE s
    IN  [exists |-> TRUE, data |-> r.data, meta |-> r.meta]

(* Create or Update of CreateOrUpdate, line 147, for a Secret read as     *)
(* seen: the call stores s, or fails; it fails when the stored Secret is  *)
(* no longer the one read (AlreadyExists, Conflict)                       *)
Stored(t, seen, s, ok) == IF ok /\ t = seen THEN Persisted(s) ELSE t

(* smmeta.Unavailable().WithMessage(err.Error()), line 178, and           *)
(* smmeta.Available(), line 181: neither constructor takes an argument,   *)
(* so the reason is the constant of the constructor                       *)
ReadyCondition(e) ==
    IF e # <<>>
    THEN [cond |-> "Unavailable", reason |-> "Unavailable", msg |-> e]
    ELSE [cond |-> "Available", reason |-> "Available", msg |-> <<>>]

(* the request exists: the ExternalSecret the Reconcile read, which its   *)
(* own cycle and the closure of its Add both hold, with the interval,     *)
(* Status.NextSync, the conditions, and whether its resourceVersion is    *)
(* the stored one.  The target is absent, was written by an earlier cycle *)
(* of the request, or is a Secret another controller owns                 *)
RaceInit ==
    /\ now = StartTime
    /\ obj = [n \in Names |->
                 IF n = CycleName
                 THEN [NoObject EXCEPT !.exists = TRUE, !.interval = 60]
                 ELSE NoObject]
    /\ target \in Targets
    /\ secret = [n \in Names |-> n = CycleName /\ target.exists]
    /\ entries = {}
    /\ nextID = 0
    /\ scheduleMap = [n \in Names |-> NoEntry]
    /\ mu = {}
    /\ pc = [w \in Callers |-> "idle"]
    /\ req = [w \in Callers |-> CycleName]
    /\ es = [w \in Callers |-> NoES]
    /\ held = [k \in 0..MaxEntries |-> NoHeld]
    /\ jobs = {}
    /\ removed = [n \in Names |-> FALSE]
    /\ last = NoRun
    /\ edits = 0
    /\ runs = 0
    /\ phase = "idle"
    /\ extSecret = NoStatus
    /\ secretData = EmptyMap
    /\ secretDataMap = EmptyMap
    /\ secretMeta = NoMeta
    /\ err = <<>>
    /\ hist = NoHist
    /\ cycles = [of |-> [c \in Triggers |-> NoCycle], writes |-> <<>>,
                 overlap |-> FALSE,
                 request |-> [interval |-> 60, nextSync |-> Nil,
                              status |-> <<>>, fresh |-> TRUE]]
    /\ StoreIdle

raceOther == <<now, entries, nextID, scheduleMap, mu, pc, req, es, held,
               jobs, removed, last, edits, runs, phase, extSecret,
               secretData, secretDataMap, secretMeta, err, hist, storeVars>>

(* lines 118-145: sync starts and sets Status.NextSync; the other cycle   *)
(* of the request may be on its way                                       *)
RaceStart(c) ==
    /\ cycles.of[c].phase = "idle"
    /\ cycles' = [cycles EXCEPT
                     !.of[c].phase = "get",
                     !.request.nextSync = NextSync(cycles.request, now),
                     !.overlap = @ \/ \E d \in Triggers \ {c} :
                                   cycles.of[d].phase \notin {"idle", "done"}]
    /\ UNCHANGED <<obj, secret, target, raceOther>>

(* CreateOrUpdate, line 147: it first reads the Secret *)
RaceGet(c, ok) ==
    /\ cycles.of[c].phase = "get"
    /\ cycles' = [cycles EXCEPT
                     !.of[c].phase = AfterStep("store", ok),
                     !.of[c].seen = IF ok THEN <<target>> ELSE <<>>,
                     !.of[c].err = IF ok THEN <<>> ELSE Cause("get")]
    /\ UNCHANGED <<obj, secret, target, raceOther>>

(* lines 148-151: getStore for the request e the cycle holds *)
RaceGetStore(c, e, found) ==
    /\ cycles.of[c].phase = "store"
    /\ LET r == getStore(e, found)
       IN  cycles' = [cycles EXCEPT
                         !.of[c].phase = AfterStep("client", r.ok),
                         !.of[c].lookup = <<e, r>>,
                         !.of[c].err =
                             IF r.ok THEN <<>>
                             ELSE Wrap("cannot get store reference", r.err)]
    /\ UNCHANGED <<obj, secret, target, raceOther>>

(* lines 153-156, storeFactory.New *)
RaceNewClient(c, ok) ==
    /\ cycles.of[c].phase = "client"
    /\ cycles' = [cycles EXCEPT
                     !.of[c].phase = AfterStep("mutate", ok),
                     !.of[c].lookup = <<>>,
                     !.of[c].err =
                         IF ok THEN <<>>
                         ELSE Wrap("cannot setup store client",
                                   Cause("client"))]
    /\ UNCHANGED <<obj, secret, target, raceOther>>

(* lines 158-173: the rest of the mutate function.  fetched: getSecret    *)
(* returned the map m; t: the template of the request.  The controller    *)
(* reference cannot be set on a Secret another controller owns            *)
RaceMutate(c, fetched, m, t) ==
    /\ cycles.of[c].phase = "mutate"
    /\ LET owner == SetControllerReference(
                        InMemory(cycles.of[c].seen[1]).owners, CycleName).ok
           ok == owner /\ fetched /\ t.kind # "bad"
       IN  cycles' = [cycles EXCEPT
                 !.of[c].phase = AfterStep("write", ok),
                 !.of[c].inputs = IF ok THEN <<m, t>> ELSE <<>>,
                 !.of[c].secret =
                     IF ok THEN <<Payload(cycles.of[c].seen[1], m, t)>>
                     ELSE <<>>,
                 !.of[c].err =
                     IF ~owner
                     THEN Wrap(
                         "failed to set ExternalSecret controller reference",
                         Cause("owner"))
                     ELSE IF ~fetched
                     THEN Wrap("cannot get ExternalSecret data from store",
                               Wrap("path", Cause("data")))
                     ELSE IF t.kind = "bad"
                     THEN Wrap("failed to merge secret with template field",
                               Wrap("error unmarshalling json",
                                    Cause("template")))
                     ELSE <<>>]
    /\ UNCHANGED <<obj, secret, target, raceOther>>

(* CreateOrUpdate after the mutate function: an error when the mutate     *)
(* function changed the name or the namespace, else Create when the       *)
(* Secret was not found, Update when the mutate function changed the      *)
(* Secret read, else no call; the API server refuses an Update that       *)
(* changes the type.  The Secret is compared whole: after a template that *)
(* parsed, its CreationTimestamp is not the one read, and the Update is   *)
(* sent                                                                   *)
RaceWrite(c, ok) ==
    /\ cycles.of[c].phase = "write"
    /\ LET seen == cycles.of[c].seen[1]
           s == cycles.of[c].secret[1]
           same == seen = s
       IN  /\ same => ok
           /\ s.meta.name # CycleName => ~ok
           /\ (seen.exists /\ s.meta.type # seen.meta.type) => ~ok
           /\ (~same /\ target # seen) => ~ok
           /\ target' = IF same THEN target ELSE Stored(target, seen, s, ok)
           /\ cycles' = [cycles EXCEPT
                            !.of[c].phase = "return",
                            !.of[c].err = IF ok THEN <<>> ELSE Cause("write"),
                            !.writes = IF ~same /\ ok THEN Append(@, c)
                                       ELSE @]
    /\ secret' = [secret EXCEPT ![CycleName] = target'.exists]
    /\ UNCHANGED <<obj, raceOther>>

(* lines 176-182: SetConditions on the ExternalSecret both cycles hold *)
RaceSet(c) ==
    /\ cycles.of[c].phase = "return"
    /\ LET e == IF cycles.of[c].err = <<>> THEN <<>>
                ELSE Wrap("cannot create/update ExternalSecret data from store",
                          cycles.of[c].err)
       IN  cycles' = [cycles EXCEPT !.of[c].phase = "update",
                                    !.of[c].lookup = <<>>,
                                    !.of[c].err = e,
                                    !.of[c].status = <<ReadyCondition(e)>>,
                                    !.request.status = <<ReadyCondition(e)>>]
    /\ UNCHANGED <<obj, secret, target, raceOther>>

(* the deferred Status().Update of line 141 marshals the ExternalSecret   *)
(* both cycles hold as it is in memory by now and sends it                *)
RaceSend(c) ==
    /\ cycles.of[c].phase = "update"
    /\ cycles' = [cycles EXCEPT !.of[c].phase = "sent",
                                !.of[c].sent = <<cycles.request>>]
    /\ UNCHANGED <<obj, secret, target, raceOther>>

(* the API server answers the update: it stores the status sent (st),     *)
(* which takes the resourceVersion sent to be the stored one, or it       *)
(* refuses; what it stored is the reply, at the new resourceVersion       *)
RaceStore(c, st) ==
    /\ cycles.of[c].phase = "sent"
    /\ st => (obj[CycleName].exists /\ cycles.of[c].sent[1].fresh)
    /\ obj' = CycleObj(CycleName, cycles.of[c].sent[1].nextSync,
                       cycles.of[c].sent[1].status[1].cond = "Available", st)
    /\ cycles' =
          IF st
          THEN [cycles EXCEPT
                   !.of = [d \in Triggers |->
                             IF d = c
                             THEN [@[d] EXCEPT !.phase = "stored",
                                               !.st = TRUE]
                             ELSE IF @[d].sent = <<>> THEN @[d]
                             ELSE [@[d] EXCEPT !.sent[1].fresh = FALSE]],
                   !.request.fresh = FALSE]
          ELSE [cycles EXCEPT !.of[c].phase = "stored"]
    /\ UNCHANGED <<secret, target, raceOther>>

(* Status().Update returns: a reply is decoded into the ExternalSecret    *)
(* both cycles hold, an error is logged; then sync returns                *)
RaceReturn(c) ==
    /\ cycles.of[c].phase = "stored"
    /\ cycles' = [cycles EXCEPT
                     !.of[c].phase = "done",
                     !.request = IF cycles.of[c].st THEN cycles.of[c].sent[1]
                                 ELSE @]
    /\ UNCHANGED <<obj, secret, target, raceOther>>

RaceNext ==
    \/ \E c \in Triggers : RaceStart(c)
    \/ \E c \in Triggers, ok \in BOOLEAN : RaceGet(c, ok)
    \/ \E c \in Triggers,
          e \in [kind : {"", "ExternalSecret"}, namespace : {"ns"},
                 storeRef : [kind : {"SecretStore", "ClusterSecretStore"},
                             name : {"store-a"}]],
          found \in SUBSET {"cluster", "namespace"} : RaceGetStore(c, e, found)
    \/ \E c \in Triggers, ok \in BOOLEAN : RaceNewClient(c, ok)
    \/ \E c \in Triggers, fetched \in BOOLEAN,
          m \in {[k \in {"a"} |-> <<255, 0>>],
                 [k \in {"b"} |-> <<104, 105, 33>>]},
          t \in {x \in Templates : x.kind # "ok" \/ x.meta # NoMeta} :
             RaceMutate(c, fetched, m, t)
    \/ \E c \in Triggers, ok \in BOOLEAN : RaceWrite(c, ok)
    \/ \E c \in Triggers : RaceSet(c)
    \/ \E c \in Triggers : RaceSend(c)
    \/ \E c \in Triggers, st \in BOOLEAN : RaceStore(c, st)
    \/ \E c \in Triggers : RaceReturn(c)

RaceSpec == RaceInit /\ [][RaceNext]_vars

(* ---------------------------------------------------------------------- *)
(* StoreSpec: the store factory, the AWS constructors, the session         *)
(* provider                                                                *)
(* ---------------------------------------------------------------------- *)

schedVars == <<now, obj, secret, entries, nextID, scheduleMap, mu, pc, req,
               es, held, jobs, removed, last, edits, runs>>

(* the fields of SecretStoreSpec, in the order Default.New tests them *)
Variants == <<"Vault", "AWSSecretManager", "AWSParameterStore">>
(* a populated AWSSecretManager or AWSParameterStore: Region and Role are *)
(* optional, CredentialsRef.SecretRef is nil (<<>>) or a reference        *)
AwsStores ==
    [Region : {"", "eu-central-1"}, Role : {"", "my-role"},
     Credentials :
        [SecretRef : {<<>>, <<[Name |-> "aws-creds", Namespace |-> "ns"]>>}]]
(* the stores: every field of SecretStoreSpec is nil (<<>>) or populated *)
Stores ==
    [name : {"store-a", "store-b"},
     spec : [Vault : {<<>>, <<[Server |-> "https://vault"]>>},
             AWSSecretManager : {<<>>} \cup {<<a>> : a \in AwsStores},
             AWSParameterStore : {<<>>} \cup {<<a>> : a \in AwsStores}]]
(* AWS_ACCESS_KEY_ID and AWS_SECRET_ACCESS_KEY of the process, if set, and *)
(* AWS_REGION                                                             *)
EnvCreds == [AccessKeyID |-> "123", SecretAccessKey |-> "123",
             SessionToken |-> ""]

secretKeyAccessKeyID == "accessKeyID"
secretKeySecretAccessKey == "secretAccessKey"
(* what kubeclient.Get gives for the referenced Secret: an error, or the  *)
(* Data of the Secret                                                     *)
CredSecrets ==
    {[found |-> FALSE, data |-> EmptyMap],
     [found |-> TRUE, data |-> EmptyMap],
     [found |-> TRUE, data |-> [k \in {secretKeyAccessKeyID} |-> "000000"]],
     [found |-> TRUE,
      data |-> [k \in {secretKeyAccessKeyID, secretKeySecretAccessKey} |->
                   IF k = secretKeyAccessKeyID THEN "000000" ELSE "888888"]],
     [found |-> TRUE,
      data |-> [k \in {secretKeyAccessKeyID, secretKeySecretAccessKey} |->
                   IF k = secretKeyAccessKeyID THEN "000000" ELSE ""]]}
(* what sts.AssumeRole gives: an error, or temporary credentials *)
RoleCreds == [AccessKeyID |-> "666", SecretAccessKey |-> "777",
              SessionToken |-> "token"]
(* what the calls Default.New makes come back with: vault.New, the Get of *)
(* the credentials Secret, the two session.NewSessionWithOptions,         *)
(* sts.AssumeRole                                                         *)
NewInputs == [vault : BOOLEAN, get : CredSecrets, new1 : BOOLEAN,
              new2 : BOOLEAN,
              sts : {[ok |-> FALSE, creds |-> <<>>],
                     [ok |-> TRUE, creds |-> <<RoleCreds>>]}]

(* lines 34-56 of the credentials file: id, key and error *)
getCredentialsFromSecret(get) ==
    IF ~get.found
    THEN [id |-> "", key |-> "", err |-> <<"unable to fetch secret">>]
    ELSE IF secretKeyAccessKeyID \notin DOMAIN get.data
    THEN [id |-> "", key |-> "",
          err |-> <<"no data for", secretKeyAccessKeyID>>]
    ELSE IF secretKeySecretAccessKey \notin DOMAIN get.data
    THEN [id |-> "", key |-> "",
          err |-> <<"no data for", secretKeySecretAccessKey>>]
    ELSE [id |-> get.data[secretKeyAccessKeyID],
          key |-> get.data[secretKeySecretAccessKey], err |-> <<>>]

(* lines 58-71: without a SecretRef both strings are empty *)
getCredentialsFromCredentialsRef(credRef, get) ==
    IF credRef.SecretRef # <<>>
    THEN getCredentialsFromSecret(get)
    ELSE [id |-> "", key |-> "", err |-> <<>>]

newSessionProvider(accessKeyID, secretAccessKey, region, role) ==
    [AccessKeyID |-> accessKeyID, SecretAccessKey |-> secretAccessKey,
     Region |-> region, Role |-> role]

(* GetSession, lines 254-257: static credentials when both strings are    *)
(* given, else none in the options                                        *)
StaticCredentials(d) ==
    IF d.AccessKeyID # "" /\ d.SecretAccessKey # ""
    THEN <<[AccessKeyID |-> d.AccessKeyID,
            SecretAccessKey |-> d.SecretAccessKey, SessionToken |-> ""]>>
    ELSE <<>>

(* session.NewSessionWithOptions: the credentials of the options, else    *)
(* those of the environment; the region of the environment                *)
NewSession(creds, e) ==
    [creds |-> IF creds # <<>> THEN creds ELSE e.creds, region |-> e.region]

(* an AssumeRole call under the name of the role *)
AssumeRoleInputRoleAsName(d) ==
    [RoleArn |-> d.Role, RoleSessionName |-> d.Role]

(* lines 264-267 *)
AssumeRoleInput(d) ==
    [RoleArn |-> d.Role, RoleSessionName |-> "secret-manager"]

(* the region set whatever is configured *)
WithRegionAlways(d, sess) == [sess EXCEPT !.region = d.Region]

(* lines 285-287: the configured region is set when there is one or when  *)
(* static credentials are used, else the session keeps its region         *)
WithRegion(d, sess) ==
    IF d.Region # "" \/ (d.AccessKeyID # "" /\ d.SecretAccessKey # "")
    THEN [sess EXCEPT !.region = d.Region]
    ELSE sess

(* GetSession, lines 249-290: the session or the error, and the AssumeRole *)
(* calls made                                                             *)
GetSession(d, e, in) ==
    LET static == StaticCredentials(d)
        sess == NewSession(static, e)
        failed(msg, calls) == [err |-> msg, sess |-> <<>>, sts |-> calls]
    IN  IF ~in.new1
        THEN failed(<<"unable to create aws session">>, <<>>)
        ELSE IF d.Role # ""
        THEN LET call == AssumeRoleInput(d)
             IN  IF ~in.sts.ok
                 THEN failed(<<"unable to assume role">>, <<call>>)
                 ELSE IF ~in.new2
                 THEN failed(<<"unable to create aws session">>, <<call>>)
                 ELSE [err |-> <<>>,
                       sess |-> <<WithRegion(d, NewSession(in.sts.creds, e))>>,
                       sts |-> <<call>>]
        ELSE [err |-> <<>>, sess |-> <<WithRegion(d, sess)>>, sts |-> <<>>]

(* what Default.New returns and the calls it made: the client (kind) or   *)
(* none with the error, the session of an AWS client, the constructors    *)
(* called, the AssumeRole calls, the session provider used                *)
Built(variant, r, d) ==
    [kind |-> IF r.err = <<>> THEN variant ELSE "none", err |-> r.err,
     sess |-> r.sess, sts |-> r.sts, built |-> <<variant>>, provider |-> d]

(* a store without a populated field gives a nil client and a nil error *)
NoValidClientNoError(st) ==
    [kind |-> "none", err |-> <<>>, sess |-> <<>>, sts |-> <<>>,
     built |-> <<>>, provider |-> <<>>]

(* Default.New, line 57 *)
NoValidClient(st) ==
    [kind |-> "none",
     err |-> <<"SecretStore", st.name, "does not have a valid client">>,
     sess |-> <<>>, sts |-> <<>>, built |-> <<>>, provider |-> <<>>]

(* NewSecretsManager (secretsmanager.go, lines 33-50) and                  *)
(* NewSecureSystemsManager: the credentials of the reference, then the    *)
(* session                                                                *)
NewAws(variant, cfg, e, in) ==
    LET creds == getCredentialsFromCredentialsRef(cfg.Credentials, in.get)
        d == newSessionProvider(creds.id, creds.key, cfg.Region, cfg.Role)
    IN  IF creds.err # <<>>
        THEN Built(variant, [err |-> creds.err, sess |-> <<>>, sts |-> <<>>],
                   <<>>)
        ELSE Built(variant, GetSession(d, e, in), <<d>>)

NewSecretsManager(st, e, in) ==
    NewAws("AWSSecretManager", st.spec.AWSSecretManager[1], e, in)

NewSecureSystemsManager(st, e, in) ==
    NewAws("AWSParameterStore", st.spec.AWSParameterStore[1], e, in)

(* vault.New: the client or an error *)
NewVault(st, in) ==
    Built("Vault",
          [err |-> IF in.vault THEN <<>> ELSE <<"vault.New", "failed">>,
           sess |-> <<>>, sts |-> <<>>], <<>>)

(* the error of a constructor under the message of Default.New *)
Setup(msg, c) == IF c.err = <<>> THEN c ELSE [c EXCEPT !.err = Wrap(msg, @)]

(* Default.New, lines 33-58 *)
DefaultNew(st, e, in) ==
    IF st.spec.Vault # <<>>
    THEN Setup("unable to setup Vault client", NewVault(st, in))
    ELSE IF st.spec.AWSSecretManager # <<>>
    THEN Setup("unable to setup SecretsManager client",
               NewSecretsManager(st, e, in))
    ELSE IF st.spec.AWSParameterStore # <<>>
    THEN Setup("unable to setup SecureSystemsManager client",
               NewSecureSystemsManager(st, e, in))
    ELSE NoValidClient(st)

(* a SecretStore as getStore read it, and the environment of the process *)
StoreInit ==
    /\ BaseInit
    /\ store \in Stores
    /\ env \in [creds : {<<>>, <<EnvCreds>>}, region : {"", "us-east-1"}]
    /\ client = NoClient
    /\ reply = NoReply

(* storeFactory.New(ctx, store, ...), controller.go line 153 *)
New(in) ==
    /\ client = NoClient
    /\ store \in Stores
    /\ client' = DefaultNew(store, env, in)
    /\ UNCHANGED <<store, env, reply, schedVars, cycleVars>>

StoreNext == \E in \in NewInputs : New(in)

StoreSpec == StoreInit /\ [][StoreNext]_vars

(* ---------------------------------------------------------------------- *)
(* AwsSpec: GetSecret and GetSecretMap of SecretsManagerStore and          *)
(* SecureSystemsManagerStore                                               *)
(* ---------------------------------------------------------------------- *)

(* Strings that are read byte by byte are sequences of byte values:       *)
(* 34 is the quote, 44 the comma, 58 the colon, 91 and 93 the brackets,   *)
(* 123 and 125 the braces, 48..57 the digits.                             *)

(* the text of a JSON string, of an object member, of a flat object *)
JString(b) == <<34>> \o b \o <<34>>
JMember(p) == JString(p[1]) \o <<58>> \o p[2]
RECURSIVE JMembers(_)
JMembers(ps) ==
    IF Len(ps) = 0 THEN <<>>
    ELSE IF Len(ps) = 1 THEN JMember(ps[1])
    ELSE JMember(ps[1]) \o <<44>> \o JMembers(Tail(ps))
JObject(ps) == <<123>> \o JMembers(ps) \o <<125>>

(* the keys a and b, the values A and B *)
JsonKeys == {<<97>>, <<98>>}
JsonValues == {<<65>>, <<66>>}
(* the members of the flat objects: up to two, keys may repeat *)
FlatMembers ==
    UNION {[1..n -> JsonKeys \X {JString(v) : v \in JsonValues}] : n \in 0..2}
(* null, a, 1, [], the text I AM, an unclosed object, the empty string,   *)
(* and objects whose member a is null, a number, an object                *)
OtherDocs ==
    {<<110, 117, 108, 108>>, JString(<<65>>), <<49>>, <<91, 93>>,
     <<73, 32, 65, 77>>, <<123, 34, 97, 34, 58, 34, 65, 34>>, <<>>,
     JObject(<<<<<<97>>, <<110, 117, 108, 108>>>>>>),
     JObject(<<<<<<97>>, <<49>>>>>>),
     JObject(<<<<<<97>>, JObject(<<<<<<98>>, JString(<<66>>)>>>>)>>>>)}
(* the strings a backend holds *)
Docs == {JObject(ps) : ps \in FlatMembers} \cup OtherDocs

(* the byte at i, or -1 past the end *)
At(s, i) == IF i \in DOMAIN s THEN s[i] ELSE -1
HasPrefix(s, i, w) ==
    i + Len(w) - 1 <= Len(s) /\ SubSeq(s, i, i + Len(w) - 1) = w

(* a parsed value: where it ends, its kind, the text of a string, the     *)
(* members of an object with the kind and text of their values            *)
NoValue == [ok |-> FALSE, next |-> 0, kind |-> "", str |-> <<>>,
            members |-> <<>>]
JValue(next, kind, str, members) ==
    [ok |-> TRUE, next |-> next, kind |-> kind, str |-> str,
     members |-> members]

(* the closing quote of the string that begins before i, 0 if there is    *)
(* none; the strings of Docs have no escape sequences                     *)
RECURSIVE StringEnd(_, _)
StringEnd(s, i) ==
    IF i > Len(s) \/ At(s, i) < 32 THEN 0
    ELSE IF s[i] = 34 THEN i
    ELSE StringEnd(s, i + 1)

RECURSIVE DigitsEnd(_, _)
DigitsEnd(s, i) ==
    IF At(s, i) \in 48..57 THEN DigitsEnd(s, i + 1) ELSE i

ParseString(s, i) ==
    LET j == StringEnd(s, i + 1)
    IN  IF At(s, i) = 34 /\ j > 0
        THEN JValue(j + 1, "string", SubSeq(s, i + 1, j - 1), <<>>)
        ELSE NoValue

RECURSIVE ParseValue(_, _)
RECURSIVE ParseMembers(_, _, _)
RECURSIVE ParseElements(_, _)

(* encoding/json on text without white space: the value that begins at i *)
ParseValue(s, i) ==
    LET c == At(s, i)
    IN  IF c = 34 THEN ParseString(s, i)
        ELSE IF c = 123
        THEN IF At(s, i + 1) = 125
             THEN JValue(i + 2, "object", <<>>, <<>>)
             ELSE ParseMembers(s, i + 1, <<>>)
        ELSE IF c = 91
        THEN IF At(s, i + 1) = 93
             THEN JValue(i + 2, "array", <<>>, <<>>)
             ELSE ParseElements(s, i + 1)
        ELSE IF HasPrefix(s, i, <<110, 117, 108, 108>>)
        THEN JValue(i + 4, "null", <<>>, <<>>)
        ELSE IF HasPrefix(s, i, <<116, 114, 117, 101>>)
        THEN JValue(i + 4, "bool", <<>>, <<>>)
        ELSE IF HasPrefix(s, i, <<102, 97, 108, 115, 101>>)
        THEN JValue(i + 5, "bool", <<>>, <<>>)
        ELSE IF c \in 48..57
        THEN JValue(DigitsEnd(s, i), "number", <<>>, <<>>)
        ELSE NoValue

(* the members of an object from i on, after the members acc *)
ParseMembers(s, i, acc) ==
    LET k == ParseString(s, i)
        v == IF k.ok /\ At(s, k.next) = 58
             THEN ParseValue(s, k.next + 1) ELSE NoValue
        ms == Append(acc, [key |-> k.str, kind |-> v.kind, str |-> v.str])
    IN  IF ~v.ok THEN NoValue
        ELSE IF At(s, v.next) = 44 THEN ParseMembers(s, v.next + 1, ms)
        ELSE IF At(s, v.next) = 125
        THEN JValue(v.next + 1, "object", <<>>, ms)
        ELSE NoValue

(* the elements of an array from i on *)
ParseElements(s, i) ==
    LET v == ParseValue(s, i)
    IN  IF ~v.ok THEN NoValue
        ELSE IF At(s, v.next) = 44 THEN ParseElements(s, v.next + 1)
        ELSE IF At(s, v.next) = 93
        THEN JValue(v.next + 1, "array", <<>>, <<>>)
        ELSE NoValue

(* the members stored into a map[string]string one after the other: a    *)
(* later member replaces an earlier one, null stores the empty string     *)
RECURSIVE StoreMembers(_, _)
StoreMembers(ms, m) ==
    IF ms = <<>> THEN m
    ELSE StoreMembers(Tail(ms),
                      [k \in DOMAIN m \cup {ms[1].key} |->
                          IF k = ms[1].key THEN ms[1].str ELSE m[k]])

(* json.Unmarshal([]byte(doc), &m) with m a map[string]string, lines 61   *)
(* and 82: a syntax error, or null, which leaves no entries, or an object *)
(* whose values are strings or null, or a type error                      *)
Unmarshal(doc) ==
    LET v == ParseValue(doc, 1)
    IN  IF ~v.ok \/ v.next # Len(doc) + 1
        THEN [err |-> TRUE, m |-> EmptyMap]
        ELSE IF v.kind = "null"
        THEN [err |-> FALSE, m |-> EmptyMap]
        ELSE IF v.kind = "object"
                /\ \A i \in DOMAIN v.members :
                      v.members[i].kind \in {"string", "null"}
        THEN [err |-> FALSE, m |-> StoreMembers(v.members, EmptyMap)]
        ELSE [err |-> TRUE, m |-> EmptyMap]

(* the references of AwsSpec: two paths, no property or property a or b *)
Refs == [Path : {"/foo/bar/baz", "/foo/bar/json"},
         Property : {<<>>} \cup {<<k>> : k \in JsonKeys}]
(* what GetSecretValue and GetParameter come back with: an error, or the  *)
(* string (SecretString, Parameter.Value)                                 *)
Responses == {[err |-> TRUE, str |-> <<>>]}
             \cup {[err |-> FALSE, str |-> <<d>>] : d \in Docs}
(* GetSecretValue on a secret stored as binary: SecretString is nil *)
BinaryResponse == [err |-> FALSE, str |-> <<>>]
(* the two clients as constructed *)
AwsClients ==
    {[NoClient EXCEPT !.kind = v]
        : v \in {"AWSSecretManager", "AWSParameterStore"}}

(* what a read returns: a value or a map with a nil error, or nil with an *)
(* error; or the read panics                                              *)
Returned(value, map) ==
    [status |-> "ok", value |-> value, map |-> map, msg |-> ""]
Failed(msg) ==
    [status |-> "error", value |-> <<>>, map |-> <<>>, msg |-> msg]
Panicked ==
    [status |-> "panic", value |-> <<>>, map |-> <<>>, msg |-> ""]

(* a missing key gives the empty value *)
PropertyOrEmpty(m, p) ==
    IF p \notin DOMAIN m THEN Returned(<<<<>>>>, <<>>)
    ELSE Returned(<<m[p]>>, <<>>)

(* lines 65-69: the value of the key, or an error *)
Property(m, p) ==
    IF p \notin DOMAIN m THEN Failed("property does not exist")
    ELSE Returned(<<m[p]>>, <<>>)

(* the values of the map with their quotes *)
ByteMapQuoted(m) == [k \in DOMAIN m |-> JString(m[k])]

(* lines 86-89: every value as []byte *)
ByteMap(m) == [k \in DOMAIN m |-> m[k]]

(* SecretsManagerStore.GetSecret, lines 52-72, on the response of the one *)
(* read                                                                   *)
StoreGetSecret(ref, resp) ==
    IF resp.err THEN Failed("could not read secret")
    ELSE IF resp.str = <<>> THEN Panicked
    ELSE IF ref.Property # <<>>
    THEN LET u == Unmarshal(resp.str[1])
         IN  IF u.err THEN Failed("could not read property")
             ELSE Property(u.m, ref.Property[1])
    ELSE Returned(resp.str, <<>>)

(* SecretsManagerStore.GetSecretMap, lines 74-91 *)
StoreGetSecretMap(ref, resp) ==
    IF resp.err THEN Failed("could not read secret")
    ELSE IF resp.str = <<>> THEN Panicked
    ELSE LET u == Unmarshal(resp.str[1])
         IN  IF u.err THEN Failed("could not unmarshal json")
             ELSE Returned(<<>>, <<ByteMap(u.m)>>)

(* a GetSecret that returns the whole parameter whatever the property *)
ParameterGetSecretWhole(ref, resp) ==
    IF resp.err THEN Failed("could not read parameter")
    ELSE IF resp.str = <<>> THEN Panicked
    ELSE Returned(resp.str, <<>>)

(* SecureSystemsManagerStore.GetSecret, part_001 lines 124-144, on the    *)
(* response of GetParameter; Parameter.Value is the string                *)
ParameterGetSecret(ref, resp) ==
    IF resp.err THEN Failed("could not read parameter")
    ELSE IF resp.str = <<>> THEN Panicked
    ELSE IF ref.Property # <<>>
    THEN LET u == Unmarshal(resp.str[1])
         IN  IF u.err THEN Failed("could not read property")
             ELSE IF ref.Property[1] \notin DOMAIN u.m
             THEN Failed("property does not exist")
             ELSE Returned(<<u.m[ref.Property[1]]>>, <<>>)
    ELSE Returned(resp.str, <<>>)

(* SecureSystemsManagerStore.GetSecretMap, part_001 lines 145-162 *)
ParameterGetSecretMap(ref, resp) ==
    IF resp.err THEN Failed("could not read secret")
    ELSE IF resp.str = <<>> THEN Panicked
    ELSE LET u == Unmarshal(resp.str[1])
         IN  IF u.err THEN Failed("could not unmarshal json")
             ELSE Returned(<<>>, <<[k \in DOMAIN u.m |-> u.m[k]]>>)

(* a store with its API client, as the constructors and the tests make it *)
AwsInit ==
    /\ BaseInit
    /\ store = [name |-> "", spec |-> <<>>]
    /\ env = [creds |-> <<>>, region |-> ""]
    /\ client \in AwsClients
    /\ reply = NoReply

(* a read of the store: the call made with the path of the reference, the *)
(* response, what the method returns                                      *)
Read(op, ref, resp, out) ==
    /\ client \in AwsClients
    /\ reply.status # "panic"
    /\ resp = BinaryResponse => client.kind = "AWSSecretManager"
    /\ reply' = [op |-> op, ref |-> ref, reads |-> <<ref.Path>>,
                 resp |-> resp, status |-> out.status, value |-> out.value,
                 map |-> out.map, msg |-> out.msg]
    /\ UNCHANGED <<store, env, client, schedVars, cycleVars>>

(* GetSecret of the store the client is *)
GetSecret(ref, resp) ==
    Read("GetSecret", ref, resp,
         IF client.kind = "AWSParameterStore"
         THEN ParameterGetSecret(ref, resp)
         ELSE StoreGetSecret(ref, resp))

(* GetSecretMap of the store the client is *)
GetSecretMap(ref, resp) ==
    Read("GetSecretMap", ref, resp,
         IF client.kind = "AWSParameterStore"
         THEN ParameterGetSecretMap(ref, resp)
         ELSE StoreGetSecretMap(ref, resp))

AwsNext ==
    \/ \E ref \in Refs, resp \in Responses \cup {BinaryResponse} :
          GetSecret(ref, resp)
    \/ \E ref \in Refs, resp \in Responses \cup {BinaryResponse} :
          GetSecretMap(ref, resp)

AwsSpec == AwsInit /\ [][AwsNext]_vars

(* ---------------------------------------------------------------------- *)
(* Properties                                                              *)
(* ---------------------------------------------------------------------- *)

(* t is one of the instants added, added + interval, ... of entry e *)
OnGrid(e, t) ==
    /\ t >= e.added
    /\ e.sched.RenewAfter > 0
    /\ (t - e.added) % e.sched.RenewAfter = 0

(* the run loop is through with instant t for entry e *)
Settled(e, t) == t < now \/ e.next > now

(* the instants of e's grid up to t *)
GridUpTo(e, t) ==
    IF e.sched.RenewAfter > 0
    THEN {e.added + k * e.sched.RenewAfter :
              k \in 0..((t - e.added) \div e.sched.RenewAfter)}
    ELSE {}

(* e has fired at exactly the instants of its grid: every instant other   *)
(* than those of e.fires and of the grid is neither fired nor on the grid *)
FiresOnGrid(e) ==
    \A t \in e.fires \cup GridUpTo(e, now) :
        Settled(e, t) => (t \in e.fires <=> OnGrid(e, t))

InCS == {w \in Callers : pc[w] \in {"add_cs", "remove_cs"}}

(* C1: an entry registered by Add fires at the instant of the Add and     *)
(* then at every multiple of its interval after it, as long as it is      *)
(* registered, whether or not the jobs of earlier firings have returned   *)
C1_FiresAtAddThenEveryInterval ==
    \A e \in entries : FiresOnGrid(e)

(* an entry has fired at its Add and one interval later while the job of  *)
(* its first firing has still not returned                                *)
C1_Witness ==
    \E e \in entries :
        /\ e.fires = {e.added, e.added + e.sched.RenewAfter}
        /\ \E j \in jobs : j.entry = e.id /\ j.fired = e.added

(* C2: the scheduler holds at most one timer entry per identity *)
C2_OneTimerPerIdentity ==
    \A n \in Names : Cardinality({e \in entries : e.name = n}) <= 1

(* C3: no firing starts for an identity whose Remove has returned, until  *)
(* a later Add for it                                                      *)
C3_NoFiringAfterRemove ==
    \A j \in jobs : ~j.afterRemove

(* C4: a Remove for an identity that was never added returns and leaves   *)
(* every timer entry as it was                                             *)
C4_RemoveUnknownIsNoOp ==
    (last.kind = "remove" /\ ~last.known) =>
        /\ last.same
        /\ scheduleMap[last.name] = NoEntry
        /\ \A w \in Callers : req[w] = last.name => pc[w] = "idle"

(* Remove of a never added identity has returned while another identity   *)
(* holds a timer entry                                                     *)
C4_Witness ==
    /\ last.kind = "remove"
    /\ ~last.known
    /\ \E e \in entries : e.name # last.name

(* C5: when the fn of a firing returns an error, the entry stays          *)
(* registered with its next firing still ahead on its grid, and no entry  *)
(* of the scheduler is overdue                                             *)
C5_FailedJobStaysRegistered ==
    (last.kind = "job" /\ ~last.ok /\ last.live) =>
        /\ \E e \in entries :
              /\ e.id = last.entry
              /\ OnGrid(e, e.next)
              /\ FiresOnGrid(e)
        /\ \A e \in entries : e.next >= now

(* a job has failed; its entry waits for the firing one interval after    *)
(* the failed one, next to an entry of another identity                   *)
C5_Witness ==
    /\ last.kind = "job"
    /\ ~last.ok
    /\ \E e \in entries :
          /\ e.id = last.entry
          /\ e.next = last.fired + e.sched.RenewAfter
          /\ e.next > now
          /\ \E o \in entries : o.name # e.name

(* C6: while job bodies are in flight the dispatch loop stays free, and   *)
(* the entries of every other identity fire at their due instants         *)
C6_RunningJobDelaysNoOne ==
    /\ (jobs # {} /\ TimerDue) => DispatchFree(jobs)
    /\ \A j \in jobs : \A e \in entries :
          e.name # j.name => (e.next >= now /\ FiresOnGrid(e))

(* a job of one identity is still in flight when a later firing of        *)
(* another identity has started, so cycles of two identities overlap      *)
C6_Witness ==
    \E j \in jobs, k \in jobs : j.name # k.name /\ j.fired < k.fired

(* C7: at most one caller is inside the critical section of Add or        *)
(* Remove, and the lock is held by exactly the callers inside one, never  *)
(* by a job body                                                           *)
C7_LockOnlyAroundMapMutation ==
    /\ Cardinality(InCS) <= 1
    /\ mu = InCS

(* Add is inside its critical section while a job body is in flight *)
C7_Witness ==
    \E w \in Callers : pc[w] = "add_cs" /\ mu = {w} /\ jobs # {}

(* C8: every Add made by Reconcile carries an interval that is set and at *)
(* least 60 seconds; a request with an unset, zero or sub-minute interval *)
(* is reconciled without Add                                               *)
C8_AddOnlyForMinuteIntervals ==
    /\ \A e \in entries : e.sched.RenewAfter >= 60
    /\ pc[Worker] \in {"add_lock", "add_cs"} =>
          (es[Worker].interval # Nil /\ es[Worker].interval >= 60)
    /\ (last.kind = "reconcile" /\ last.found
          /\ (last.interval = Nil \/ last.interval < 60)) => ~last.added

(* a request with a sub-minute interval was synced without Add, after     *)
(* the same identity got a timer entry under a one-minute interval        *)
C8_Witness ==
    /\ last.kind = "reconcile"
    /\ last.found
    /\ last.interval = 30
    /\ last.syncs = 1
    /\ ~last.added
    /\ entries # {}

(* C9: a Reconcile that found its request, and not the zero interval with *)
(* nextSync already set, has run exactly one cycle when it returns        *)
C9_OneCyclePerTrigger ==
    (last.kind = "reconcile" /\ last.found
        /\ ~(last.interval = 0 /\ last.seen # Nil)) => last.syncs = 1

(* a scheduled request whose nextSync was already set was synced again *)
C9_Witness ==
    /\ last.kind = "reconcile"
    /\ last.found
    /\ last.added
    /\ last.seen # Nil
    /\ last.syncs = 1

(* C10: a cycle of a zero-interval request sets nextSync to the epoch and *)
(* sends it with the status, and the request holds the epoch once the     *)
(* update has stored it; a trigger that finds the zero interval with      *)
(* nextSync set returns without Add, cycle or requeue                     *)
C10_ZeroIntervalSyncsOnce ==
    /\ (last.kind = "reconcile" /\ last.found /\ last.interval = 0
          /\ last.syncs = 1) =>
          last.nextSync = Epoch
    /\ (pc[Worker] = "stored" /\ es[Worker].interval = 0
          /\ es[Worker].st /\ es[Worker].sent.fresh) =>
          obj[req[Worker]].nextSync = Epoch
    /\ (last.kind = "reconcile" /\ last.found /\ last.interval = 0
          /\ last.seen # Nil) =>
          /\ last.syncs = 0
          /\ ~last.requeue
          /\ ~last.added
          /\ pc[Worker] = "idle"

(* a trigger found the zero interval with the epoch recorded and skipped *)
C10_Witness ==
    /\ last.kind = "reconcile"
    /\ last.found
    /\ last.interval = 0
    /\ last.seen = Epoch
    /\ last.syncs = 0
    /\ obj[last.name].nextSync = Epoch

(* the nextSync sync sets for interval i, started at t, seen before as p *)
ExpectedNextSync(i, t, p) ==
    CASE i = Nil -> p
      [] i = 0   -> Epoch
      [] OTHER   -> t + i

(* C11: the nextSync the status update of a successful cycle of a         *)
(* Reconcile has stored is the one it found when the interval is unset    *)
(* (unset stays unset), the epoch when the interval is zero, and the      *)
(* start of the cycle plus the interval when it is positive               *)
C11_NextSyncOfSuccessfulCycle ==
    (last.kind = "reconcile" /\ last.syncs = 1 /\ last.ok /\ last.stored) =>
        /\ last.nextSync =
               ExpectedNextSync(last.interval, last.at, last.seen)
        /\ (last.interval = Nil /\ last.seen = Nil) => last.nextSync = Nil

(* C15: Reconcile asks for a requeue, after requeueAfter, exactly when    *)
(* the cycle it ran failed; after a successful or skipped cycle or a      *)
(* deleted request it asks for none, and a failed cycle is never returned *)
(* as an error                                                            *)
C15_RequeueIffCycleFailed ==
    last.kind \in {"reconcile", "remove"} =>
        /\ last.requeue <=> (last.syncs = 1 /\ ~last.ok)
        /\ last.requeue => last.after = requeueAfter
        /\ ~last.requeue => last.after = 0
        /\ last.syncs = 1 => ~last.err

(* a Reconcile whose cycle failed returned a requeue after 30 seconds *)
C15_Witness ==
    /\ last.kind = "reconcile" /\ last.syncs = 1 /\ ~last.ok
    /\ last.requeue /\ last.after = 30 /\ ~last.err

(* C16: a trigger for a request whose last cycle ended Unavailable runs a *)
(* new cycle                                                              *)
C16_UnavailableIsRetried ==
    (/\ last.kind = "reconcile" /\ last.found
     /\ obj[last.name].exists
     /\ obj[last.name].cond = "Unavailable") => last.syncs = 1

(* ---------------------------------------------------------------------- *)
(* Properties of a cycle                                                   *)
(* ---------------------------------------------------------------------- *)

StepNames == {hist.steps[i].step : i \in DOMAIN hist.steps}
AllOk == \A i \in DOMAIN hist.steps : hist.steps[i].ok
FailedStep == hist.steps[Len(hist.steps)]

(* the place of a step in the order of a cycle *)
Rank(step) ==
    CASE step = "get"      -> 0
      [] step = "store"    -> 1
      [] step = "client"   -> 2
      [] step = "owner"    -> 3
      [] step = "from"     -> 4
      [] step = "data"     -> 5
      [] step = "encode"   -> 6
      [] step = "template" -> 7
      [] OTHER             -> 8

(* the steps no cycle leaves out before it takes a later one *)
Required == {"get", "store", "client", "owner", "encode"}

LastOf(S) == CHOOSE x \in S : \A y \in S : y <= x

(* what the fetches of a getSecret in progress say: the keys fetched, the *)
(* value of the last dataFrom map that has a key, the value of the last   *)
(* data entry of a key                                                    *)
FromKeys == UNION {DOMAIN hist.from[i] : i \in DOMAIN hist.from}
DataKeys == {hist.data[i][1] : i \in DOMAIN hist.data}
LastFrom(k) ==
    hist.from[LastOf({i \in DOMAIN hist.from : k \in DOMAIN hist.from[i]})][k]
LastData(k) ==
    hist.data[LastOf({i \in DOMAIN hist.data : hist.data[i][1] = k})][2]

(* the value of a base64 character, or Nil *)
StdIndex(c) ==
    IF \E i \in 0..63 : StdChar(i) = c
    THEN CHOOSE i \in 0..63 : StdChar(i) = c
    ELSE Nil

(* s is base64 with padding: groups of four characters of the alphabet,   *)
(* the last group ending in at most two pads                              *)
IsBase64(s) ==
    /\ Len(s) % 4 = 0
    /\ \A i \in DOMAIN s :
          \/ StdIndex(s[i]) # Nil
          \/ /\ s[i] = StdPadding
             /\ i >= Len(s) - 1
             /\ i = Len(s) - 1 => s[Len(s)] = StdPadding

RECURSIVE Decode(_)
(* the bytes a base64 string stands for *)
Decode(s) ==
    IF Len(s) < 4 THEN <<>>
    ELSE LET c1 == StdIndex(s[1])
             c2 == StdIndex(s[2])
             c3 == StdIndex(s[3])
             c4 == StdIndex(s[4])
             rest == Decode(SubSeq(s, 5, Len(s)))
         IN  IF s[3] = StdPadding
             THEN <<c1 * 4 + c2 \div 16>>
             ELSE IF s[4] = StdPadding
             THEN <<c1 * 4 + c2 \div 16, (c2 % 16) * 16 + c3 \div 4>>
             ELSE <<c1 * 4 + c2 \div 16, (c2 % 16) * 16 + c3 \div 4,
                    (c3 % 4) * 64 + c4>> \o rest

(* C12: a cycle that returned has sent, with its status update, the Ready *)
(* condition of its own outcome: Available if and only if none of its     *)
(* steps failed, and else Unavailable with its own error as message       *)
C12_AvailableIffAllStepsSucceeded ==
    \A c \in Triggers :
       cycles.of[c].phase = "done" =>
          /\ cycles.of[c].sent[1].status[1].cond = "Available"
                 <=> cycles.of[c].err = <<>>
          /\ cycles.of[c].err # <<>> =>
                 /\ cycles.of[c].sent[1].status[1].cond = "Unavailable"
                 /\ cycles.of[c].sent[1].status[1].msg = cycles.of[c].err

(* C13: the steps of a cycle are taken in the order store lookup, client  *)
(* setup, fetches, template, write, none left out; a failed step is the   *)
(* last one, so after a failed store lookup no client is built and        *)
(* nothing is fetched                                                     *)
C13_StepsInOrderFirstFailureEnds ==
    /\ \A i, j \in DOMAIN hist.steps :
          i < j =>
            /\ Rank(hist.steps[i].step) <= Rank(hist.steps[j].step)
            /\ Rank(hist.steps[i].step) = Rank(hist.steps[j].step)
                  => hist.steps[i].step \in {"from", "data"}
            /\ hist.steps[i].ok
    /\ \A i \in DOMAIN hist.steps :
          \A r \in Required :
             Rank(r) < Rank(hist.steps[i].step) =>
                \E h \in 1..(i - 1) : hist.steps[h].step = r
    /\ Step("store", FALSE) \in {hist.steps[i] : i \in DOMAIN hist.steps}
          => StepNames \cap {"client", "from", "data", "write"} = {}

(* a cycle returned after its second dataFrom fetch failed: nothing came  *)
(* after it                                                               *)
C13_Witness ==
    /\ phase = "done"
    /\ hist.steps = <<Step("get", TRUE), Step("store", TRUE),
                      Step("client", TRUE), Step("owner", TRUE),
                      Step("from", TRUE), Step("from", FALSE)>>

(* C14: once a cycle has started, the target Secret differs from what it  *)
(* was before the cycle only if every step succeeded, the write last, and *)
(* then it holds the whole payload                                        *)
C14_FailedCycleLeavesTarget ==
    (phase # "idle" /\ target # hist.before) =>
        /\ AllOk
        /\ hist.steps # <<>> /\ FailedStep = Step("write", TRUE)
        /\ target = Persisted([data |-> secretData, meta |-> secretMeta])
        /\ phase \in {"return", "done"}

(* a cycle returned after its write failed, with a payload that differs   *)
(* from the Secret that was there before and still is                     *)
C14_Witness ==
    /\ phase = "done"
    /\ FailedStep = Step("write", FALSE)
    /\ hist.before.exists
    /\ target = hist.before
    /\ secretData # target.data
    /\ DOMAIN secretData = Keys

(* C17: no failure of a step makes the cycle panic *)
C17_NoFailureIsFatal == phase # "crashed"

(* C18: in the payload getSecret merges, a key set by a data entry        *)
(* carries the value fetched for the last data entry of that key,         *)
(* whatever dataFrom gave for it                                          *)
C18_DataOverridesDataFrom ==
    phase \in {"from", "data"} =>
        \A k \in DataKeys :
           k \in DOMAIN secretDataMap /\ secretDataMap[k] = LastData(k)

(* dataFrom gave both keys, two data entries set key b with different     *)
(* values, the last one different from dataFrom's; key b has it and key a *)
(* still has dataFrom's value                                             *)
C18_Witness ==
    /\ phase = "data"
    /\ Len(hist.from) = 1 /\ DOMAIN hist.from[1] = Keys
    /\ Len(hist.data) = 2
    /\ hist.data[1][1] = "b" /\ hist.data[2][1] = "b"
    /\ hist.data[1][2] # hist.data[2][2]
    /\ hist.data[2][2] # hist.from[1]["b"]
    /\ secretDataMap["b"] = hist.data[2][2]
    /\ secretDataMap["a"] = hist.from[1]["a"]

(* C19: while getSecret fetches, the keys of the accumulator are those of *)
(* all the maps fetched (and of the data entries), and a key no data      *)
(* entry sets has the value of the last dataFrom map that holds it        *)
C19_DataFromLaterWins ==
    phase \in {"from", "data"} =>
        /\ DOMAIN secretDataMap = FromKeys \cup DataKeys
        /\ \A k \in FromKeys \ DataKeys : secretDataMap[k] = LastFrom(k)

(* two dataFrom maps were merged: key a is in both with different values  *)
(* and has the second one, key b is in the first only                     *)
C19_Witness ==
    /\ phase = "data"
    /\ Len(hist.from) = 2 /\ hist.data = <<>>
    /\ DOMAIN hist.from[1] = Keys /\ DOMAIN hist.from[2] = {"a"}
    /\ hist.from[1]["a"] # hist.from[2]["a"]
    /\ secretDataMap["a"] = hist.from[2]["a"]
    /\ secretDataMap["b"] = hist.from[1]["b"]

(* the stored value of key k is base64 of the bytes getSecret fetched and *)
(* merged for k                                                           *)
RoundTrips(k) ==
    /\ IsBase64(target.data[k])
    /\ k \in DOMAIN hist.merged
    /\ Decode(target.data[k]) = hist.merged[k]

(* C20, as stated: after a successful cycle every value of the stored     *)
(* payload is base64 of the bytes fetched for its key, template or not    *)
C20_EveryValueRoundTrips ==
    (phase = "done" /\ extSecret.cond = "Available") =>
        \A k \in DOMAIN target.data : RoundTrips(k)

(* C20, amended: after a successful cycle every value of the stored       *)
(* payload whose key the template does not set, as an entry of data or of *)
(* stringData, is base64 of the bytes fetched for its key                 *)
C20_UntemplatedValuesRoundTrip ==
    (phase = "done" /\ extSecret.cond = "Available") =>
        /\ target.data =
              Persisted([data |-> secretData, meta |-> secretMeta]).data
        /\ \A k \in DOMAIN target.data
                     \ (DOMAIN extSecret.template.data
                        \cup DOMAIN extSecret.template.meta.stringData) :
              RoundTrips(k)

(* a successful cycle stored key a as fetched, two bytes with one pad,    *)
(* and key b as the literal of the template                               *)
C20_Witness ==
    /\ phase = "done" /\ extSecret.cond = "Available"
    /\ DOMAIN target.data = Keys
    /\ DOMAIN extSecret.template.data = {"b"}
    /\ target.data["b"] = Literal
    /\ hist.merged["a"] = <<255, 0>>
    /\ target.data["a"] = <<47, 119, 65, 61>>

(* the template step of the cycle has merged a parsed template *)
Templated ==
    /\ phase \in {"write", "return", "done"}
    /\ extSecret.template.kind = "ok"

(* map has the entries of over, and the entries of under for the keys     *)
(* over does not have                                                     *)
Overlaid(map, over, under) ==
    /\ DOMAIN map = DOMAIN over \cup DOMAIN under
    /\ \A k \in DOMAIN over : map[k] = over[k]
    /\ \A k \in DOMAIN under \ DOMAIN over : map[k] = under[k]

(* C21: after a template was merged, every label, annotation and data key *)
(* of the template has the template's value in the Secret, every other    *)
(* key has the computed value (the labels and annotations of the request, *)
(* the encoded fetched data); a template that does not parse ends the     *)
(* cycle with an error, Unavailable and the target as it was              *)
C21_TemplateOverlaysComputed ==
    /\ Templated =>
        /\ Overlaid(secretData, extSecret.template.data,
                    EncodeAll(hist.merged))
        /\ Overlaid(secretMeta.labels, extSecret.template.meta.labels,
                    RequestMeta.labels)
        /\ Overlaid(secretMeta.annotations,
                    extSecret.template.meta.annotations,
                    RequestMeta.annotations)
    /\ extSecret.template.kind = "bad" =>
        /\ phase \in {"return", "done"}
        /\ err # <<>>
        /\ target = hist.before
        /\ phase = "done" => extSecret.cond = "Unavailable"

(* a template with a literal for key b, a label app and an annotation     *)
(* note was merged over a Secret with fetched keys a and b and the        *)
(* request's labels app and env, and the result was stored                *)
C21_Witness ==
    /\ phase = "done"
    /\ extSecret.cond = "Available"
    /\ extSecret.template.data = [k \in {"b"} |-> Literal]
    /\ DOMAIN hist.merged = Keys
    /\ target.data["b"] = Literal
    /\ target.data["a"] = Encode(hist.merged["a"])
    /\ target.meta.labels["app"] = "template"
    /\ target.meta.labels["env"] = "request"
    /\ target.meta.labels["tier"] = "template"
    /\ target.meta.annotations["note"] = "template"
    /\ target.meta.annotations["owner"] = "request"

(* ---------------------------------------------------------------------- *)
(* Properties of the store factory and the session provider                *)
(* ---------------------------------------------------------------------- *)

(* the populated fields of the store handed to Default.New *)
Populated ==
    {v \in {Variants[i] : i \in DOMAIN Variants} : store.spec[v] # <<>>}

(* Default.New has returned *)
Resolved == client # NoClient

(* the errors the constructors return *)
ConstructionErrors ==
    {<<"vault.New", "failed">>, <<"unable to fetch secret">>,
     <<"no data for", secretKeyAccessKeyID>>,
     <<"no data for", secretKeySecretAccessKey>>,
     <<"unable to create aws session">>, <<"unable to assume role">>}

(* the error of the constructor inside the error Default.New returned *)
ConstructionError == IF client.err = <<>> THEN <<>> ELSE Tail(client.err)

(* C22: a store with no or with more than one populated backend field is  *)
(* refused: Default.New returns an error and no client, and has called no *)
(* constructor                                                            *)
C22_NotExactlyOneVariantFails ==
    (Resolved /\ Cardinality(Populated) # 1) =>
        /\ client.kind = "none"
        /\ client.err # <<>>
        /\ client.built = <<>>

(* C23: with one populated field Default.New calls the constructor of     *)
(* that backend and no other and returns its client or, wrapped, its      *)
(* error; with none it calls no constructor and returns no client and an  *)
(* error with the name of the store                                       *)
C23_OneVariantBuildsThatClient ==
    Resolved =>
        /\ \A v \in Populated :
              Populated = {v} =>
                /\ client.built = <<v>>
                /\ client.kind \in {v, "none"}
                /\ client.kind = v <=> client.err = <<>>
                /\ client.err # <<>> =>
                      ConstructionError \in ConstructionErrors
        /\ Populated = {} =>
                /\ client.built = <<>>
                /\ client.kind = "none"
                /\ \E i \in DOMAIN client.err : client.err[i] = store.name

(* only AWSParameterStore is populated and its client was built *)
C23_Witness ==
    /\ Populated = {"AWSParameterStore"}
    /\ client.kind = "AWSParameterStore"
    /\ client.built = <<"AWSParameterStore">>
    /\ client.sess # <<>>

(* the session provider GetSession was called on, if it was *)
Provider == client.provider[1]
Explicit == Provider.AccessKeyID # "" /\ Provider.SecretAccessKey # ""

(* C27: with a role, once the first session exists, there is one          *)
(* AssumeRole call, for that role under the name "secret-manager"; the    *)
(* session returned has the credentials of the response; when AssumeRole  *)
(* fails there is an error and no session; without a role there is no     *)
(* AssumeRole call                                                        *)
C27_RoleIsAssumedOnce ==
    (Resolved /\ client.provider # <<>>) =>
        /\ Provider.Role = "" => client.sts = <<>>
        /\ Provider.Role # "" =>
            /\ client.sts \in
                  {<<>>, <<[RoleArn |-> Provider.Role,
                            RoleSessionName |-> "secret-manager"]>>}
            /\ client.sts = <<>> =>
                  ConstructionError = <<"unable to create aws session">>
            /\ client.sess # <<>> =>
                  /\ Len(client.sts) = 1
                  /\ client.sess[1].creds = <<RoleCreds>>
            /\ client.sess = <<>> => client.err # <<>>
            /\ ConstructionError = <<"unable to assume role">> =>
                  client.sess = <<>> /\ client.kind = "none"

(* a role was assumed with explicit credentials in an environment that    *)
(* has credentials of its own                                             *)
C27_Witness ==
    /\ client.kind = "AWSSecretManager"
    /\ Provider.Role = "my-role"
    /\ Explicit
    /\ env.creds = <<EnvCreds>>
    /\ Len(client.sts) = 1
    /\ client.sess[1].creds = <<RoleCreds>>

(* without a role, a session was returned *)
Roleless ==
    /\ Resolved
    /\ client.provider # <<>>
    /\ Provider.Role = ""
    /\ client.sess # <<>>

(* without a role the session has the explicit pair when both strings are *)
(* given and the credentials of the environment otherwise                 *)
SessionCredentials ==
    Roleless =>
        /\ Explicit =>
              client.sess[1].creds =
                  <<[AccessKeyID |-> Provider.AccessKeyID,
                     SecretAccessKey |-> Provider.SecretAccessKey,
                     SessionToken |-> ""]>>
        /\ ~Explicit => client.sess[1].creds = env.creds

(* C28 as stated: the credentials as above, and the region of the session *)
(* is the configured region in every case                                 *)
C28_RegionAlwaysConfigured ==
    /\ SessionCredentials
    /\ Roleless => client.sess[1].region = Provider.Region

(* C28: the credentials as above; the region of the session is the        *)
(* configured one when a region is configured or the explicit pair is     *)
(* used, and the region of the environment otherwise                      *)
C28_RegionConfiguredOrAmbient ==
    /\ SessionCredentials
    /\ Roleless =>
          client.sess[1].region =
              IF Provider.Region # "" \/ Explicit THEN Provider.Region
              ELSE env.region

(* explicit credentials were used although the environment has its own,  *)
(* and the region is the configured one, not that of the environment      *)
C28_Witness ==
    /\ Roleless
    /\ Explicit
    /\ env.creds = <<EnvCreds>>
    /\ env.region = "us-east-1"
    /\ client.sess[1].creds # env.creds
    /\ client.sess[1].region = "eu-central-1"

(* ---------------------------------------------------------------------- *)
(* Properties of the AWS stores                                            *)
(* ---------------------------------------------------------------------- *)

(* the read came back with a string *)
GotString == reply.op # "none" /\ ~reply.resp.err /\ reply.resp.str # <<>>

(* the member lists whose flat object is the fetched string *)
FlatSource == {ps \in FlatMembers : <<JObject(ps)>> = reply.resp.str}
KeysOf(ps) == {ps[i][1] : i \in DOMAIN ps}
(* the string values the object ps gives for key k *)
ValuesOf(ps, k) ==
    {v \in JsonValues : \E i \in DOMAIN ps : ps[i] = <<k, JString(v)>>}

(* C24: GetSecret makes one read, for the path of the reference; on a     *)
(* fetched string it returns, without a property, the bytes of the string *)
(* and, with a property and a flat object, the value of that key, or an   *)
(* error and no value when the object has no such key                     *)
C24_GetSecretValueOrProperty ==
    reply.op = "GetSecret" =>
        /\ reply.reads = <<reply.ref.Path>>
        /\ (GotString /\ reply.ref.Property = <<>>) =>
              reply.status = "ok" /\ reply.value = reply.resp.str
        /\ (GotString /\ reply.ref.Property # <<>>) =>
              \A ps \in FlatSource :
                 LET p == reply.ref.Property[1]
                 IN  /\ p \in KeysOf(ps) =>
                          /\ reply.status = "ok"
                          /\ Len(reply.value) = 1
                          /\ reply.value[1] \in ValuesOf(ps, p)
                     /\ p \notin KeysOf(ps) =>
                          reply.status = "error" /\ reply.value = <<>>

(* property b of {"a":"A","b":"B"} was read and gave B *)
C24_Witness ==
    /\ reply.op = "GetSecret"
    /\ client.kind = "AWSParameterStore"
    /\ reply.ref.Property = <<<<98>>>>
    /\ reply.resp.str =
          <<JObject(<<<<<<97>>, JString(<<65>>)>>,
                      <<<<98>>, JString(<<66>>)>>>>)>>
    /\ reply.value = <<<<66>>>>

(* the fetched strings that are flat JSON objects: string values, or null *)
FlatDocs ==
    {JObject(ps) : ps \in FlatMembers}
        \cup {JObject(<<<<<<97>>, <<110, 117, 108, 108>>>>>>)}

(* C25: GetSecret with a property and GetSecretMap return an error and no *)
(* value, no map, when the read fails or when what was fetched is not a   *)
(* flat JSON object                                                       *)
C25_NotAFlatObjectIsAnError ==
    (/\ reply.op = "GetSecretMap"
           \/ (reply.op = "GetSecret" /\ reply.ref.Property # <<>>)
     /\ reply.resp.err \/ \A d \in FlatDocs : reply.resp.str # <<d>>) =>
        /\ reply.status = "error"
        /\ reply.value = <<>>
        /\ reply.map = <<>>

(* C26: GetSecretMap on a fetched flat object returns a map whose keys    *)
(* are the keys of the object, each with the bytes of its string value,   *)
(* whatever the property of the reference                                 *)
C26_GetSecretMapIsTheObject ==
    (reply.op = "GetSecretMap" /\ GotString) =>
        \A ps \in FlatSource :
            /\ reply.status = "ok"
            /\ Len(reply.map) = 1
            /\ DOMAIN reply.map[1] = KeysOf(ps)
            /\ \A k \in KeysOf(ps) : reply.map[1][k] \in ValuesOf(ps, k)

(* {"a":"A","b":"B"} was read as a map through a reference with property  *)
(* a and gave a->A, b->B                                                  *)
C26_Witness ==
    /\ reply.op = "GetSecretMap"
    /\ reply.ref.Property = <<<<97>>>>
    /\ reply.resp.str =
          <<JObject(<<<<<<97>>, JString(<<65>>)>>,
                      <<<<98>>, JString(<<66>>)>>>>)>>
    /\ reply.map = <<[k \in JsonKeys |-> IF k = <<97>> THEN <<65>> ELSE <<66>>]>>

(* ---------------------------------------------------------------------- *)
(* Properties of the removal of a request                                  *)
(* ---------------------------------------------------------------------- *)

(* C29: the Reconcile of a request that is not found returns from         *)
(* Scheduler.Remove without a cycle, without a requeue and without an     *)
(* error; as long as no Add follows, the identity has no timer entry and  *)
(* no cycle is started for it                                             *)
C29_AbsentRequestIsUnscheduled ==
    /\ last.kind = "remove" =>
          /\ last.syncs = 0
          /\ ~last.requeue
          /\ ~last.err
    /\ \A n \in Names :
          removed[n] =>
            /\ \A e \in entries : e.name # n
            /\ \A j \in jobs : j.name = n => ~j.afterRemove

(* the cycle of a job that ended with nil has written the target, and no  *)
(* status is stored for a request that does not exist                     *)
CycleWroteTarget ==
    (last.kind = "job" /\ last.ok) =>
        /\ secret[last.name]
        /\ ~obj[last.name].exists => obj[last.name] = NoObject

(* a cycle has ended with nil after Remove took its entry away *)
EndedAfterRemove ==
    /\ last.kind = "job"
    /\ last.ok
    /\ ~last.live
    /\ removed[last.name]

(* C30 as stated: a cycle that was running when its identity was removed  *)
(* ends with the target written and its status stored                     *)
C30_RunningCycleWritesTargetAndStatus ==
    EndedAfterRemove =>
        /\ secret[last.name]
        /\ obj[last.name].exists
        /\ obj[last.name].cond = "Available"

(* Remove has returned for identity n in this step *)
RemoveReturned(n) == removed'[n] /\ ~removed[n]

(* C30: a Remove leaves the cycles that are running as they are, those of *)
(* the removed identity included, and a cycle that ends with nil has      *)
(* written the target, whether its entry is still there or not; its       *)
(* status is stored only on a request that exists                         *)
C30_RemoveLeavesRunningCycles ==
    /\ []CycleWroteTarget
    /\ [][\A n \in Names : RemoveReturned(n) => jobs' = jobs]_vars

(* a cycle that was running for an entry when Remove took the entry away  *)
(* has ended with nil after the Remove, and the target is there           *)
C30_Witness ==
    /\ EndedAfterRemove
    /\ ~obj[last.name].exists
    /\ secret[last.name]

(* ---------------------------------------------------------------------- *)
(* Properties of two cycles of one request                                 *)
(* ---------------------------------------------------------------------- *)

(* a cycle is between its start and its return *)
InFlight(c) == cycles.of[c].phase \notin {"idle", "done"}

BothDone == \A c \in Triggers : cycles.of[c].phase = "done"

(* the data a cycle on its own builds from what it fetched and from its   *)
(* template: the encoded values, the literals of the template over them,  *)
(* those of its stringData last                                           *)
OwnData(c) ==
    LET m == cycles.of[c].inputs[1]
        t == cycles.of[c].inputs[2]
        lit == IF t.kind = "ok" THEN mergoMap(t.data, t.meta.stringData)
               ELSE EmptyMap
    IN  [k \in DOMAIN m \cup DOMAIN lit |->
            IF k \in DOMAIN lit THEN lit[k] ELSE Encode(m[k])]

LastWriter == cycles.writes[Len(cycles.writes)]

(* C31: a scheduled cycle and the cycle of a Reconcile of one request can *)
(* be in flight at once (the witness); whenever a cycle has written, the  *)
(* target Secret is the Secret the last writer built, as the API server   *)
(* keeps it, and its data are that cycle's own data, with no key and no   *)
(* value of the other cycle                                               *)
C31_LastWriteWins ==
    cycles.writes # <<>> =>
        /\ target = Persisted(cycles.of[LastWriter].secret[1])
        /\ target.data = OwnData(LastWriter)

(* both were in flight at once, both wrote, and their payloads differ *)
C31_Witness ==
    /\ BothDone
    /\ cycles.overlap
    /\ Len(cycles.writes) = 2
    /\ cycles.of["job"].secret # cycles.of["sync"].secret
    /\ target = Persisted(cycles.of[LastWriter].secret[1])

(* a cycle whose CreateOrUpdate returned nil *)
Upserted(c) ==
    /\ cycles.of[c].phase \in {"return", "update", "done"}
    /\ cycles.of[c].err = <<>>

(* C32: after a successful cycle the target Secret exists under the       *)
(* namespace and name of the request and under no other, with the request *)
(* as its controller; and when both cycles succeed with the same template *)
(* and the same fetched values, the target is the Secret the first of     *)
(* them built, which is the Secret the second built                       *)
C32_UpsertIsIdempotent ==
    /\ \A c \in Triggers :
          Upserted(c) =>
             /\ target.exists
             /\ [name |-> CycleName, controller |-> TRUE]
                    \in target.meta.owners
             /\ \A n \in Names : secret[n] <=> n = CycleName
    /\ (/\ BothDone
        /\ \A c \in Triggers : Upserted(c)
        /\ cycles.of["job"].inputs = cycles.of["sync"].inputs)
       => /\ target = Persisted(cycles.of["job"].secret[1])
          /\ target = Persisted(cycles.of["sync"].secret[1])

(* C33: the store of a cycle is looked up by Spec.StoreRef.Name,          *)
(* cluster-wide when Spec.StoreRef.Kind is ClusterSecretStore and in the  *)
(* namespace of the request otherwise, and a failed lookup fails the      *)
(* cycle                                                                  *)
C33_StoreKindSelectsTheScope ==
    \A c \in Triggers :
       cycles.of[c].lookup # <<>> =>
          LET e == cycles.of[c].lookup[1]
              r == cycles.of[c].lookup[2]
          IN  /\ r.name = e.storeRef.name
              /\ IF e.storeRef.kind = "ClusterSecretStore"
                 THEN r.scope = "cluster" /\ r.namespace = ""
                 ELSE r.scope = "namespace" /\ r.namespace = e.namespace
              /\ ~r.ok => /\ cycles.of[c].phase = "return"
                          /\ cycles.of[c].err # <<>>

(* the cycle ended with an error *)
EndedUnavailable(c) ==
    /\ cycles.of[c].phase = "done"
    /\ cycles.of[c].err # <<>>

(* what failed: the message under "cannot create/update ExternalSecret    *)
(* data from store"                                                       *)
FailureClass(c) == cycles.of[c].err[2]

(* C34: the reason of the condition of a failed cycle tells the class of  *)
(* the failure: two cycles that failed at different steps (store lookup,  *)
(* store setup, fetch or template, write) carry different reasons         *)
C34_ReasonTellsTheClass ==
    \A c, d \in Triggers :
       (/\ EndedUnavailable(c)
        /\ EndedUnavailable(d)
        /\ FailureClass(c) # FailureClass(d))
       => cycles.of[c].status[1].reason # cycles.of[d].status[1].reason

(* ---------------------------------------------------------------------- *)
(* Properties of the two AWS stores side by side                           *)
(* ---------------------------------------------------------------------- *)

(* what a caller sees of a read: the error or not, the value, the map *)
Seen(out) ==
    [failed |-> out.status # "ok", value |-> out.value, map |-> out.map]

(* the read of the state as the Secrets Manager store answers it, and as  *)
(* the Parameter Store store answers it                                   *)
BySecretsManager ==
    IF reply.op = "GetSecret" THEN StoreGetSecret(reply.ref, reply.resp)
    ELSE StoreGetSecretMap(reply.ref, reply.resp)
ByParameterStore ==
    IF reply.op = "GetSecret" THEN ParameterGetSecret(reply.ref, reply.resp)
    ELSE ParameterGetSecretMap(reply.ref, reply.resp)

(* the backend failed, or gave a string *)
Answered == reply.op # "none" /\ (reply.resp.err \/ reply.resp.str # <<>>)

(* C35: for the same reference and the same fetched string, or the same   *)
(* backend failure, GetSecret and GetSecretMap of the Parameter Store     *)
(* client and of the Secrets Manager client return the same value or map, *)
(* or both an error; the read of the state is one of the two              *)
C35_StoresAnswerAlike ==
    Answered =>
       /\ Seen(BySecretsManager) = Seen(ByParameterStore)
       /\ BySecretsManager.status # "panic"
       /\ Seen(reply) = Seen(ByParameterStore)

(* a Parameter Store read that returned the value of a property *)
C35_Witness ==
    /\ Answered
    /\ client.kind = "AWSParameterStore"
    /\ reply.op = "GetSecret"
    /\ reply.ref.Property # <<>>
    /\ reply.status = "ok"
    /\ reply.value # reply.resp.str
    /\ Seen(reply) = Seen(BySecretsManager)

(* ---------------------------------------------------------------------- *)
(* Properties of the entries and the requests they were added for          *)
(* ---------------------------------------------------------------------- *)

(* C36: when the Reconcile of a request that was found returns, the       *)
(* identity has a timer entry only if the refreshInterval this Reconcile  *)
(* read is set and at least 60 seconds                                    *)
C36_EntryOnlyForMinuteIntervals ==
    (last.kind = "reconcile" /\ last.found) =>
       ((\E e \in entries : e.name = last.name)
           => (last.interval # Nil /\ last.interval >= 60))

(* C37: a scheduled cycle syncs the request the Reconcile that called    *)
(* Add read: its refreshInterval is the one its entry was added with, at  *)
(* least a minute, whatever the stored request has become since, and the  *)
(* Status.NextSync it works with is a start of a cycle of that request    *)
(* plus that interval                                                     *)
C37_ScheduledCycleUsesCapturedRequest ==
    \A j \in jobs :
       /\ j.interval >= 60
       /\ \A e \in entries :
             e.id = j.entry => /\ j.name = e.name
                               /\ j.interval = e.sched.RenewAfter
       /\ j.phase # "fired" =>
             \E t \in StartTime..now :
                held[j.entry].nextSync = t + j.interval

(* a later firing of an entry has begun its cycle, and the stored request *)
(* has another interval by now                                            *)
C37_Witness ==
    \E j \in jobs :
       /\ j.phase = "begun"
       /\ obj[j.name].exists
       /\ obj[j.name].interval # j.interval
       /\ held[j.entry].nextSync = j.at + j.interval
       /\ \E e \in entries : e.id = j.entry /\ j.fired > e.added

(* ---------------------------------------------------------------------- *)
(* Properties of the status update of a cycle                              *)
(* ---------------------------------------------------------------------- *)

(* C38: the status update a cycle makes when it returns carries the       *)
(* NextSync the cycle computed from its refreshInterval when it started:  *)
(* the epoch for a zero interval, else its start plus the interval        *)
C38_OneStatusUpdateOnExit ==
    (last.kind \in {"job", "reconcile"} /\ last.at # Nil
     /\ last.interval # Nil) =>
        last.nextSync = IF last.interval = 0 THEN Epoch
                        ELSE last.at + last.interval

(* ---------------------------------------------------------------------- *)
(* Properties of the two cycles of a trigger                               *)
(* ---------------------------------------------------------------------- *)

(* the entry fired at the instant it was added, or is due at that instant *)
(* and no time has passed                                                 *)
FiresAtOnce(e) ==
    IF e.fires = {} THEN e.next = e.added /\ now = e.added
    ELSE e.added \in e.fires

(* the synchronous cycle of the Reconcile is on its way *)
Syncing ==
    pc[Worker] \in {"begun", "written", "set", "sent", "stored"}

(* C39: a Reconcile of a request with a refreshInterval of at least 60    *)
(* seconds calls Add before its own cycle begins and runs that cycle; the *)
(* entry of the Add fires at the instant of the Add, so the trigger       *)
(* starts a scheduled cycle and a synchronous one                         *)
C39_TriggerStartsTwoCycles ==
    /\ \A e \in entries : FiresAtOnce(e)
    /\ (pc[Worker] = "sync" /\ es[Worker].interval # Nil
           /\ es[Worker].interval >= 60) => es[Worker].added
    /\ (Syncing /\ es[Worker].interval # Nil /\ es[Worker].interval >= 60) =>
          /\ es[Worker].added
          /\ \E e \in entries : /\ e.id = es[Worker].entry
                                /\ e.id = scheduleMap[req[Worker]]
                                /\ e.name = req[Worker]
                                /\ e.added <= es[Worker].at
    /\ (last.kind = "reconcile" /\ last.found /\ last.interval # Nil
           /\ last.interval >= 60) =>
          /\ last.added
          /\ last.syncs = 1
          /\ \E e \in entries : /\ e.id = last.entry
                                /\ e.id = scheduleMap[last.name]
                                /\ e.added <= last.at
                                /\ FiresAtOnce(e)

(* the Reconcile returns from its cycle while the cycle of the immediate  *)
(* firing of its Add is running                                           *)
C39_Witness ==
    /\ last.kind = "reconcile"
    /\ last.added
    /\ last.syncs = 1
    /\ \E j \in jobs : /\ j.entry = last.entry
                       /\ j.phase # "fired"
                       /\ \E e \in entries : e.id = j.entry
                                             /\ j.fired = e.added

(* ---------------------------------------------------------------------- *)
(* Properties of the credentials of an AWS client                          *)
(* ---------------------------------------------------------------------- *)

(* the AWS store Default.New built a client for names a credentials       *)
(* Secret                                                                 *)
Referenced ==
    /\ Resolved
    /\ client.built # <<>>
    /\ client.built[1] # "Vault"
    /\ store.spec[client.built[1]][1].Credentials.SecretRef # <<>>

(* C40: for a store with a credentials reference, either construction     *)
(* fails, or the session provider holds a non-empty access key and secret *)
(* key, those of the referenced Secret, and a session made without a role *)
(* carries exactly that pair and not the credentials of the environment   *)
C40_ReferenceNeverAmbient ==
    Referenced =>
       \/ client.err # <<>>
       \/ /\ Explicit
          /\ Provider.Role = "" =>
                client.sess[1].creds =
                    <<[AccessKeyID |-> Provider.AccessKeyID,
                       SecretAccessKey |-> Provider.SecretAccessKey,
                       SessionToken |-> ""]>>

====
